---- MODULE Spec2Model ----
(***************************************************************************)
(* Receipt tracker backend (backend/server.py): the scan_receipt handler   *)
(* as a state machine.  One invocation reads the upload, detects the       *)
(* format from the byte signature, normalizes the image with Pillow,       *)
(* sends one request to the vision provider and parses the reply.          *)
(***************************************************************************)
EXTENDS Integers, Sequences, FiniteSets, TLC

(***************************************************************************)
(* Python float arithmetic (IEEE-754 binary64, round to nearest even) on   *)
(* the values the resize step computes.  A mantissa is a sequence of bits, *)
(* most significant first, so that no intermediate value leaves the range  *)
(* of the model checker's integers.  A float is [m |-> bits, e |-> k] and  *)
(* stands for value(m) * 2^k.                                              *)
(***************************************************************************)
MantissaBits == 53

\* Big naturals are held as limbs of LimbBits bits, most significant first.
LimbBits == 15

LimbBase == 2 ^ LimbBits

\* Fraction limbs the long division produces before rounding: enough for a
\* 53-bit mantissa, a guard bit and a sticky bit for every divisor modelled.
DivisionLimbs == 5

Zeros(k) == [i \in 1..k |-> 0]

BitLength(n) == CHOOSE k \in 0..30 : n < 2 ^ k /\ (k = 0 \/ n >= 2 ^ (k - 1))

\* The binary digits of n, most significant first.
NatBits(n) == [i \in 1..BitLength(n) |-> (n \div (2 ^ (BitLength(n) - i))) % 2]

RECURSIVE BitsNat(_)
BitsNat(b) ==
    IF b = <<>> THEN 0 ELSE 2 * BitsNat(SubSeq(b, 1, Len(b) - 1)) + b[Len(b)]

StripZeros(b) ==
    IF \A i \in 1..Len(b) : b[i] = 0 THEN <<>>
    ELSE LET first == CHOOSE i \in 1..Len(b) :
                          b[i] = 1 /\ \A j \in 1..(i - 1) : b[j] = 0
         IN  SubSeq(b, first, Len(b))

LimbsBits(l) ==
    [i \in 1..(LimbBits * Len(l)) |->
        (l[((i - 1) \div LimbBits) + 1]
            \div (2 ^ (LimbBits - 1 - ((i - 1) % LimbBits)))) % 2]

BitsLimbs(b) ==
    LET p == Zeros((LimbBits - (Len(b) % LimbBits)) % LimbBits) \o b
    IN  [j \in 1..(Len(p) \div LimbBits) |->
            BitsNat(SubSeq(p, LimbBits * (j - 1) + 1, LimbBits * j))]

\* b + 1
Incr(b) ==
    IF \A i \in 1..Len(b) : b[i] = 1 THEN <<1>> \o Zeros(Len(b))
    ELSE LET last == CHOOSE i \in 1..Len(b) :
                         b[i] = 0 /\ \A j \in (i + 1)..Len(b) : b[j] = 1
         IN  [i \in 1..Len(b) |-> IF i < last THEN b[i] ELSE IF i = last THEN 1 ELSE 0]

\* The exact value value(b) * 2^e (plus a nonzero tail when sticky), rounded
\* to a 53-bit mantissa, ties to even.
RoundNearestEven(b, e, sticky) ==
    IF Len(b) <= MantissaBits THEN [m |-> b, e |-> e]
    ELSE LET keep  == SubSeq(b, 1, MantissaBits)
             guard == b[MantissaBits + 1]
             tail  == \E i \in (MantissaBits + 2)..Len(b) : b[i] = 1
             up    == guard = 1 /\ (sticky \/ tail \/ keep[MantissaBits] = 1)
             m     == IF up THEN Incr(keep) ELSE keep
             drop  == Len(b) - MantissaBits
         IN  IF Len(m) > MantissaBits
             THEN [m |-> SubSeq(m, 1, MantissaBits), e |-> e + drop + 1]
             ELSE [m |-> m, e |-> e + drop]

\* Schoolbook division of the limbs num by d < 2^16: quotient limbs and
\* whether a remainder is left.
RECURSIVE LongDiv(_, _, _, _)
LongDiv(num, d, rem, acc) ==
    IF num = <<>> THEN [q |-> acc, inexact |-> rem # 0]
    ELSE LET r == rem * LimbBase + Head(num)
         IN  LongDiv(Tail(num), d, r % d, Append(acc, r \div d))

\* n / d for ints 0 < n < 2^15, 0 < d < 2^16 (Python true division of two
\* ints, correctly rounded).
IntTrueDiv(n, d) ==
    LET r == LongDiv(<<n>> \o Zeros(DivisionLimbs), d, 0, <<>>)
    IN  RoundNearestEven(StripZeros(LimbsBits(r.q)),
                         -(LimbBits * DivisionLimbs), r.inexact)

\* value(l) * x + c in limbs, for a natural x < 2^16.
RECURSIVE MulSmall(_, _, _)
MulSmall(l, x, c) ==
    IF l = <<>> THEN IF c = 0 THEN <<>> ELSE <<c>>
    ELSE LET t == l[Len(l)] * x + c
         IN  Append(MulSmall(SubSeq(l, 1, Len(l) - 1), x, t \div LimbBase),
                    t % LimbBase)

\* x * f for an int 0 <= x < 2^16 and a float f (the int converts exactly).
IntTimesFloat(x, f) ==
    RoundNearestEven(StripZeros(LimbsBits(MulSmall(BitsLimbs(f.m), x, 0))),
                     f.e, FALSE)

BitsLess(a, b) ==
    \E i \in 1..Len(a) : a[i] < b[i] /\ \A j \in 1..(i - 1) : a[j] = b[j]

\* a < b for two floats with full 53-bit mantissas.
FloatLess(a, b) == a.e < b.e \/ (a.e = b.e /\ BitsLess(a.m, b.m))

\* Python min(a, b): b when b < a, else a.
FloatMin(a, b) == IF FloatLess(b, a) THEN b ELSE a

\* int(f): truncation toward zero of a float 0 <= f < 2^30.
FloatToInt(f) ==
    IF f.e >= 0 THEN BitsNat(f.m \o Zeros(f.e))
    ELSE IF -f.e >= Len(f.m) THEN 0
    ELSE BitsNat(SubSeq(f.m, 1, Len(f.m) + f.e))

(***************************************************************************)
(* Python str operations used by the parser.  A text is a TLA+ string; the *)
(* character at position i is SubSeq(s, i, i).  The backtick cannot be     *)
(* written inside a TLA+ string, so the character "~" stands for it in     *)
(* every text of this module: Fence is the Markdown delimiter of three     *)
(* backticks.                                                              *)
(***************************************************************************)
Fence == "~~~"

FenceJson == Fence \o "json"

Char(s, i) == IF 1 <= i /\ i <= Len(s) THEN SubSeq(s, i, i) ELSE ""

Min(S) == CHOOSE x \in S : \A y \in S : x <= y

Max(S) == CHOOSE x \in S : \A y \in S : x >= y

\* Positions at which sub occurs in s.
Occurrences(s, sub) ==
    {i \in 1..(Len(s) - Len(sub) + 1) : SubSeq(s, i, i + Len(sub) - 1) = sub}

\* sub in s
Contains(s, sub) == Occurrences(s, sub) # {}

\* s.split(sep): the parts of s between the non-overlapping occurrences of
\* sep, found left to right.
RECURSIVE Split(_, _)
Split(s, sep) ==
    IF ~Contains(s, sep) THEN <<s>>
    ELSE LET i == Min(Occurrences(s, sep))
         IN  <<SubSeq(s, 1, i - 1)>> \o Split(SubSeq(s, i + Len(sep), Len(s)), sep)

Whitespace == {" ", "\n", "\t", "\r"}

\* s.strip()
Strip(s) ==
    LET solid == {i \in 1..Len(s) : Char(s, i) \notin Whitespace}
    IN  IF solid = {} THEN "" ELSE SubSeq(s, Min(solid), Max(solid))

(***************************************************************************)
(* json.loads.  A parsed value is [t |-> tag, v |-> payload]:              *)
(*   "null" (v = <<>>), "bool" (v a BOOLEAN), "int" and "float" (v a       *)
(*   decimal [n, d, sp] standing for n / 10^d, or for NaN, Infinity,       *)
(*   -Infinity when sp names one), "str" (v the text), "list" (v the       *)
(*   sequence of items) and "dict" (v the sequence of [k, val] members in  *)
(*   document order).  The texts modelled hold no backslash escape and no  *)
(*   exponent, so the scanner does not read them.                          *)
(***************************************************************************)
Null == [t |-> "null", v |-> <<>>]

Bool(b) == [t |-> "bool", v |-> b]

Num(tag, n, d) == [t |-> tag, v |-> [n |-> n, d |-> d, sp |-> ""]]

Special(name) == [t |-> "float", v |-> [n |-> 0, d |-> 0, sp |-> name]]

Str(s) == [t |-> "str", v |-> s]

List(items) == [t |-> "list", v |-> items]

Dict(members) == [t |-> "dict", v |-> members]

Digits == {"0", "1", "2", "3", "4", "5", "6", "7", "8", "9"}

DigitValue(c) == CHOOSE k \in 0..9 : ToString(k) = c

RECURSIVE DigitsNat(_)
DigitsNat(s) ==
    IF s = "" THEN 0
    ELSE 10 * DigitsNat(SubSeq(s, 1, Len(s) - 1)) + DigitValue(Char(s, Len(s)))

\* A scan result: ok, the value, and the position after it.
NoParse == [ok |-> FALSE, val |-> Null, next |-> 0]

Parsed(val, next) == [ok |-> TRUE, val |-> val, next |-> next]

\* The first position >= i that holds no JSON whitespace.
SkipWhitespace(s, i) ==
    Min({j \in i..(Len(s) + 1) : Char(s, j) \notin Whitespace})

\* The first position >= i that holds no digit.
SkipDigits(s, i) == Min({j \in i..(Len(s) + 1) : Char(s, j) \notin Digits})

\* py_scanstring from the opening quote at i: up to the next quote; a
\* control character inside the string is an error (strict mode).
ScanString(s, i) ==
    LET ends == {j \in (i + 1)..Len(s) : Char(s, j) = "\""}
    IN  IF ends = {} THEN NoParse
        ELSE LET body == SubSeq(s, i + 1, Min(ends) - 1)
             IN  IF \E j \in 1..Len(body) : Char(body, j) \in {"\n", "\t", "\r"}
                 THEN NoParse
                 ELSE Parsed(Str(body), Min(ends) + 1)

\* NUMBER_RE: (-?(?:0|[1-9]\d*))(\.\d+)? at position i.
ScanNumber(s, i) ==
    LET neg   == Char(s, i) = "-"
        first == IF neg THEN i + 1 ELSE i
        stop  == IF Char(s, first) = "0" THEN first + 1 ELSE SkipDigits(s, first)
        whole == SubSeq(s, first, stop - 1)
        fstop == IF Char(s, stop) = "." THEN SkipDigits(s, stop + 1) ELSE stop
        frac  == IF fstop > stop + 1 THEN SubSeq(s, stop + 1, fstop - 1) ELSE ""
        sign  == IF neg THEN -1 ELSE 1
    IN  IF Char(s, first) \notin Digits THEN NoParse
        ELSE IF frac = "" THEN Parsed(Num("int", sign * DigitsNat(whole), 0), stop)
        ELSE Parsed(Num("float", sign * DigitsNat(whole \o frac), Len(frac)), fstop)

StartsAt(s, i, word) == SubSeq(s, i, Min({Len(s), i + Len(word) - 1})) = word

RECURSIVE ScanValue(_, _, _)
RECURSIVE ScanMembers(_, _, _, _)
RECURSIVE ScanItems(_, _, _, _)

\* scan_once at position i.  With constants set, the literals NaN, Infinity
\* and -Infinity are read as floats, as json.loads does by default.
ScanValue(s, i, constants) ==
    LET c == Char(s, i)
    IN  IF c = "\"" THEN ScanString(s, i)
        ELSE IF c = "{" THEN
            LET j == SkipWhitespace(s, i + 1)
            IN  IF Char(s, j) = "}" THEN Parsed(Dict(<<>>), j + 1)
                ELSE ScanMembers(s, j, constants, <<>>)
        ELSE IF c = "[" THEN
            LET j == SkipWhitespace(s, i + 1)
            IN  IF Char(s, j) = "]" THEN Parsed(List(<<>>), j + 1)
                ELSE ScanItems(s, j, constants, <<>>)
        ELSE IF StartsAt(s, i, "null") THEN Parsed(Null, i + 4)
        ELSE IF StartsAt(s, i, "true") THEN Parsed(Bool(TRUE), i + 4)
        ELSE IF StartsAt(s, i, "false") THEN Parsed(Bool(FALSE), i + 5)
        ELSE IF ScanNumber(s, i).ok THEN ScanNumber(s, i)
        ELSE IF constants /\ StartsAt(s, i, "NaN") THEN Parsed(Special("nan"), i + 3)
        ELSE IF constants /\ StartsAt(s, i, "Infinity")
            THEN Parsed(Special("inf"), i + 8)
        ELSE IF constants /\ StartsAt(s, i, "-Infinity")
            THEN Parsed(Special("-inf"), i + 9)
        ELSE NoParse

\* JSONObject from the first key at i, with the members read so far.
ScanMembers(s, i, constants, acc) ==
    IF Char(s, i) # "\"" THEN NoParse
    ELSE LET key == ScanString(s, i)
         IN  IF ~key.ok THEN NoParse
             ELSE LET colon == SkipWhitespace(s, key.next)
                  IN  IF Char(s, colon) # ":" THEN NoParse
                      ELSE LET val == ScanValue(s, SkipWhitespace(s, colon + 1),
                                                constants)
                           IN  IF ~val.ok THEN NoParse
                               ELSE LET sep == SkipWhitespace(s, val.next)
                                        all == Append(acc, [k |-> key.val.v,
                                                            val |-> val.val])
                                    IN  IF Char(s, sep) = "}"
                                        THEN Parsed(Dict(all), sep + 1)
                                        ELSE IF Char(s, sep) = ","
                                        THEN ScanMembers(s,
                                                 SkipWhitespace(s, sep + 1),
                                                 constants, all)
                                        ELSE NoParse

\* JSONArray from the first item at i, with the items read so far.
ScanItems(s, i, constants, acc) ==
    LET val == ScanValue(s, i, constants)
    IN  IF ~val.ok THEN NoParse
        ELSE LET sep == SkipWhitespace(s, val.next)
                 all == Append(acc, val.val)
             IN  IF Char(s, sep) = "]" THEN Parsed(List(all), sep + 1)
                 ELSE IF Char(s, sep) = ","
                 THEN ScanItems(s, SkipWhitespace(s, sep + 1), constants, all)
                 ELSE NoParse

\* JSONDecoder.decode: one value, whitespace around it, nothing after it.
Decode(s, constants) ==
    LET r == ScanValue(s, SkipWhitespace(s, 1), constants)
    IN  IF r.ok /\ SkipWhitespace(s, r.next) = Len(s) + 1 THEN r ELSE NoParse

\* json.loads(s): ok is FALSE where it raises JSONDecodeError.
JsonLoads(s) == Decode(s, TRUE)

(***************************************************************************)
(* Uploaded files.  A file is the bytes format detection and Pillow look   *)
(* at first (head) and its length in bytes; a file no longer than its head *)
(* is held whole.                                                          *)
(***************************************************************************)
PngSignature == <<137, 80, 78, 71, 13, 10, 26, 10>>      \* b'\x89PNG\r\n\x1a\n'

JpegSignature == <<255, 216>>                            \* b'\xff\xd8'

Riff == <<82, 73, 70, 70>>                               \* b'RIFF'

Webp == <<87, 69, 66, 80>>                               \* b'WEBP'

PdfSignature == <<37, 80, 68, 70>>                       \* b'%PDF'

PngHead == PngSignature \o <<0, 0, 0, 13>>

JpegHead == JpegSignature \o <<255, 224, 0, 16, 74, 70, 73, 70, 0, 1>>

WebpHead == Riff \o <<36, 0, 1, 0>> \o Webp

GifHead == <<71, 73, 70, 56, 57, 97, 64, 6, 176, 4, 247, 0>>    \* b'GIF89a...'

WaveHead == Riff \o <<36, 0, 1, 0>> \o <<87, 65, 86, 69>>       \* b'RIFF....WAVE'

PdfHead == PdfSignature \o <<45, 49, 46, 52, 10, 37, 226, 227>> \* b'%PDF-1.4\n%..'

NoFile == [head |-> <<>>, size |-> 0]

\* Files that go on after their head.
LongFiles ==
    {[head |-> h, size |-> 65536] :
        h \in {PngHead, JpegHead, WebpHead, GifHead, WaveHead, PdfHead}}

\* Files held whole: empty, cut inside a signature, or a bare signature.
ShortFiles ==
    {[head |-> h, size |-> Len(h)] :
        h \in {<<>>, <<255>>, JpegSignature, SubSeq(PngSignature, 1, 7),
               PngSignature, Riff, SubSeq(WebpHead, 1, 11), Riff \o Webp,
               SubSeq(PdfSignature, 1, 3), PdfSignature}}

Files == LongFiles \cup ShortFiles

\* content[a:b]
Slice(s, a, b) == SubSeq(s, a + 1, IF b < Len(s) THEN b ELSE Len(s))

\* The image type scan_receipt detects from the first bytes.
DetectTypeNoDefault(content) ==
    IF Slice(content, 0, 8) = PngSignature THEN "image/png"
    ELSE IF Slice(content, 0, 2) = JpegSignature THEN "image/jpeg"
    ELSE IF Slice(content, 0, 4) = Riff /\ Slice(content, 8, 12) = Webp
        THEN "image/webp"
    ELSE IF Slice(content, 0, 4) = PdfSignature THEN "application/pdf"
    ELSE "application/octet-stream"

DetectType(content) ==
    IF Slice(content, 0, 8) = PngSignature THEN "image/png"
    ELSE IF Slice(content, 0, 2) = JpegSignature THEN "image/jpeg"
    ELSE IF Slice(content, 0, 4) = Riff /\ Slice(content, 8, 12) = Webp
        THEN "image/webp"
    ELSE IF Slice(content, 0, 4) = PdfSignature THEN "application/pdf"
    ELSE "image/jpeg"

(***************************************************************************)
(* Pillow.  An image is its mode and pixel size.  PILImage.open identifies *)
(* a file by its first bytes and then decodes it or raises; which image a  *)
(* file holds is not decided by the bytes modelled, so every image of      *)
(* Images is a possible decoding of a long file with a known signature.    *)
(***************************************************************************)
NoImage == [mode |-> "", width |-> 0, height |-> 0]

Modes == {"RGB", "RGBA"}

DimChoices == {1, 1500, 1501, 2147, 3000}

Images == [mode : Modes, width : DimChoices, height : DimChoices]

Decodings(file, images) ==
    IF file.size > Len(file.head)
       /\ file.head \in {PngHead, JpegHead, WebpHead, GifHead}
    THEN images ELSE {}

\* img.convert('RGB') unless the mode is RGB already.
ConvertRGB(im) == IF im.mode # "RGB" THEN [im EXCEPT !.mode = "RGB"] ELSE im

max_dimension == 1500

\* new_size of the resize step.
NewSize(im) ==
    LET ratio == FloatMin(IntTrueDiv(max_dimension, im.width),
                          IntTrueDiv(max_dimension, im.height))
    IN  [width  |-> FloatToInt(IntTimesFloat(im.width, ratio)),
         height |-> FloatToInt(IntTimesFloat(im.height, ratio))]

NeedsResizeWidthOnly(im) == im.width > max_dimension

NeedsResize(im) == im.width > max_dimension \/ im.height > max_dimension

\* 3 MB, the size above which the JPEG is encoded again.
MaxBytes == 3 * 1024 * 1024

TooLargeInclusive(size) == size >= MaxBytes

TooLarge(size) == size > MaxBytes

\* The byte sizes img.save may produce: a JPEG of fewer than 3 bytes per
\* pixel plus its headers.
SizeChoices == {700, MaxBytes, MaxBytes + 1}

EncodedSizes(im, sizes) ==
    {n \in sizes : n <= 700 + 3 * im.width * im.height}

\* The JPEG bytes img.save writes.
JpegFile(size) == [head |-> JpegHead, size |-> size]

(***************************************************************************)
(* The vision provider.  A reply is an HTTP response (status, whether the  *)
(* content-type header starts with application/json, whether the body is   *)
(* JSON, and the decoded body), or an exception httpx raises with its      *)
(* message.  A decoded body is described by the shape of                   *)
(* response_data["content"][0]["text"].                                    *)
(***************************************************************************)
NoReply == [kind |-> "none", status |-> 0, json_type |-> FALSE, json_body |-> FALSE,
            shape |-> "", text |-> "", msg |-> ""]

Response(status, json_type, json_body, shape, text) ==
    [kind |-> "response", status |-> status, json_type |-> json_type,
     json_body |-> json_body, shape |-> shape, text |-> text, msg |-> ""]

Raised(kind, msg) == [NoReply EXCEPT !.kind = kind, !.msg = msg]

\* Decoded bodies that are not {"content": [{"text": <str>}]}: what is
\* missing, and the message of the exception the lookup raises.
BadShapes ==
    {"no_content", "empty_content", "no_text", "null_text", "not_object"}

ShapeError(shape) ==
    CASE shape = "no_content"    -> [type |-> "KeyError", msg |-> "'content'"]
      [] shape = "empty_content" -> [type |-> "IndexError",
                                     msg |-> "list index out of range"]
      [] shape = "no_text"       -> [type |-> "KeyError", msg |-> "'text'"]
      [] shape = "null_text"     -> [type |-> "TypeError",
                                     msg |-> "argument of type 'NoneType' is not iterable"]
      [] shape = "not_object"    -> [type |-> "TypeError",
                                     msg |-> "list indices must be integers or slices, not str"]

ErrorStatuses == {201, 204, 400, 429, 500, 529}

\* Messages of httpx.TransportError subclasses other than timeouts.
TransportMessages == {"", "All connection attempts failed"}

\* Messages of httpx.TimeoutException subclasses.
TimeoutMessages == {""}

(***************************************************************************)
(* Errors.  scan_receipt ends with a ReceiptScanResult or with an          *)
(* HTTPException (status, detail).                                         *)
(***************************************************************************)
NoOutcome == [kind |-> "none", status |-> 0, detail |-> "", value |-> <<>>]

HTTPError(status, detail) ==
    [kind |-> "error", status |-> status, detail |-> detail, value |-> <<>>]

Returned(value) == [kind |-> "result", status |-> 200, detail |-> "", value |-> value]

Exception(type, msg) == [type |-> type, status |-> 0, msg |-> msg]

HTTPException(status, detail) ==
    [type |-> "HTTPException", status |-> status, msg |-> detail]

UnsupportedFormat ==
    HTTPError(400, "PDF files are not yet supported. Please upload an image (JPG, PNG, WEBP).")

\* except Exception around the image processing (lines 342-344).
ImageHandler(exc) == HTTPError(400, "Could not process image: " \o exc.msg)

\* The except clauses around the provider call and the parsing.
ScanHandlerBadRequest(exc) ==
    IF exc.type = "JSONDecodeError" THEN HTTPError(500, "Failed to parse AI response")
    ELSE IF exc.type = "HTTPException" THEN HTTPError(exc.status, exc.msg)
    ELSE HTTPError(400, "Failed to scan receipt: " \o exc.msg)

ScanHandler(exc) ==
    IF exc.type = "JSONDecodeError" THEN HTTPError(500, "Failed to parse AI response")
    ELSE IF exc.type = "HTTPException" THEN HTTPError(exc.status, exc.msg)
    ELSE HTTPError(500, "Failed to scan receipt: " \o exc.msg)

(***************************************************************************)
(* Building the ReceiptScanResult from the parsed JSON value.              *)
(***************************************************************************)
\* type(v).__name__
PyType(v) ==
    CASE v.t = "null" -> "NoneType"
      [] v.t = "bool" -> "bool"
      [] v.t = "int"  -> "int"
      [] v.t = "float" -> "float"
      [] v.t = "str"  -> "str"
      [] v.t = "list" -> "list"
      [] v.t = "dict" -> "dict"

\* result.get(key, default): the last member named key, a null one included.
GetWithoutDefault(dict, key, default) ==
    LET hits == {i \in 1..Len(dict.v) : dict.v[i].k = key}
    IN  IF hits = {} THEN Null ELSE dict.v[Max(hits)].val

Get(dict, key, default) ==
    LET hits == {i \in 1..Len(dict.v) : dict.v[i].k = key}
    IN  IF hits = {} THEN default ELSE dict.v[Max(hits)].val

Has(dict, key) == \E i \in 1..Len(dict.v) : dict.v[i].k = key

\* datetime.now().strftime("%Y-%m-%d") on the day of the scan.
Today == "2026-11-04"

Failed(type, msg) == [ok |-> FALSE, val |-> <<>>, exc |-> Exception(type, msg)]

Built(val) == [ok |-> TRUE, val |-> val, exc |-> Exception("", "")]

AllDigits(s) == \A j \in 1..Len(s) : Char(s, j) \in Digits

\* The float a numeric text stands for: optional sign, digits with an
\* optional fraction, or a spelling of infinity or nan.
FloatOfText(s) ==
    LET t      == Strip(s)
        signed == Char(t, 1) \in {"+", "-"}
        sign   == IF Char(t, 1) = "-" THEN -1 ELSE 1
        body   == IF signed THEN SubSeq(t, 2, Len(t)) ELSE t
        dots   == Occurrences(body, ".")
        whole  == IF dots = {} THEN body ELSE SubSeq(body, 1, Min(dots) - 1)
        frac   == IF dots = {} THEN "" ELSE SubSeq(body, Min(dots) + 1, Len(body))
    IN  IF body \in {"inf", "Inf", "INF", "infinity", "Infinity"}
            THEN Built([n |-> 0, d |-> 0, sp |-> IF sign < 0 THEN "-inf" ELSE "inf"])
        ELSE IF body \in {"nan", "NaN", "NAN"}
            THEN Built([n |-> 0, d |-> 0, sp |-> "nan"])
        ELSE IF AllDigits(whole) /\ AllDigits(frac) /\ Len(whole) + Len(frac) > 0
            THEN Built([n |-> sign * DigitsNat(whole \o frac), d |-> Len(frac),
                        sp |-> ""])
        ELSE Failed("ValueError",
                    "could not convert string to float: '" \o s \o "'")

\* float(v)
ToFloat(v) ==
    IF v.t \in {"int", "float"} THEN Built(v.v)
    ELSE IF v.t = "bool"
        THEN Built([n |-> IF v.v THEN 1 ELSE 0, d |-> 0, sp |-> ""])
    ELSE IF v.t = "str" THEN FloatOfText(v.v)
    ELSE Failed("TypeError",
                "float() argument must be a string or a real number, not '"
                    \o PyType(v) \o "'")

\* Whether pydantic accepts v for a field declared str / Optional[str] /
\* Optional[float].
ValidStr(v) == v.t = "str"

ValidOptionalStr(v) == v.t \in {"str", "null"}

ValidOptionalFloat(v) ==
    \/ v.t \in {"null", "int", "float", "bool"}
    \/ v.t = "str" /\ FloatOfText(v.v).ok

ValidationError(count, model) ==
    Exception("ValidationError",
              ToString(count) \o " validation error"
                  \o (IF count = 1 THEN "" ELSE "s") \o " for " \o model)

\* An Optional[float] field after validation: null or the float.
OptionalFloat(v) ==
    IF v.t = "null" THEN Null
    ELSE [t |-> "float", v |-> ToFloat(v).val]

\* LineItem(**item) for a dict item.
LineItemOf(item) ==
    LET d == Get(item, "description", Null)
        q == Get(item, "quantity", Num("int", 1, 0))
        u == Get(item, "unit_price", Null)
        t == Get(item, "total", Null)
        errors == (IF Has(item, "description") /\ ValidStr(d) THEN 0 ELSE 1)
                  + (IF ValidOptionalFloat(q) THEN 0 ELSE 1)
                  + (IF ValidOptionalFloat(u) THEN 0 ELSE 1)
                  + (IF ValidOptionalFloat(t) THEN 0 ELSE 1)
    IN  IF errors > 0 THEN [ok |-> FALSE, val |-> <<>>,
                            exc |-> ValidationError(errors, "LineItem")]
        ELSE Built([description |-> d.v,
                    quantity    |-> IF Has(item, "quantity") THEN OptionalFloat(q) ELSE q,
                    unit_price  |-> OptionalFloat(u),
                    total       |-> OptionalFloat(t)])

\* The items the comprehension iterates over, or the TypeError of iter().
Iterate(v) ==
    IF v.t = "list" THEN Built(v.v)
    ELSE IF v.t = "str"
        THEN Built([i \in 1..Len(v.v) |-> Str(Char(v.v, i))])
    ELSE IF v.t = "dict" THEN Built([i \in 1..Len(v.v) |-> Str(v.v[i].k)])
    ELSE Failed("TypeError", "'" \o PyType(v) \o "' object is not iterable")

\* LineItem(**item): a TypeError unless item is a mapping.
LineItemCall(item) ==
    IF item.t = "dict" THEN LineItemOf(item)
    ELSE Failed("TypeError",
                "LineItem() argument after ** must be a mapping, not "
                    \o PyType(item))

\* A list comprehension over calls: the first exception raised, or the list.
Comprehension(calls) ==
    LET bad == {i \in 1..Len(calls) : ~calls[i].ok}
    IN  IF bad # {} THEN calls[Min(bad)]
        ELSE Built([i \in 1..Len(calls) |-> calls[i].val])

\* [LineItem(**item) for item in result.get("line_items", [])]
LineItemsOf(result) ==
    LET it == Iterate(Get(result, "line_items", List(<<>>)))
    IN  IF ~it.ok THEN it
        ELSE Comprehension([i \in 1..Len(it.val) |-> LineItemCall(it.val[i])])

\* The keyword arguments of lines 422-432, each evaluated once, in order.
KeywordArguments(result) ==
    [vendor           |-> Get(result, "vendor", Str("Unknown")),
     date             |-> Get(result, "date", Str(Today)),
     amount           |-> ToFloat(Get(result, "amount", Num("int", 0, 0))),
     currency         |-> Get(result, "currency", Str("USD")),
     category         |-> Get(result, "category", Str("Other")),
     payment_method   |-> Get(result, "payment_method", Null),
     receipt_number   |-> Get(result, "receipt_number", Null),
     line_items       |-> LineItemsOf(result),
     confidence_score |-> ToFloat(Get(result, "confidence_score",
                                      Num("float", 5, 1)))]

\* ReceiptScanResult(vendor=..., ..., confidence_score=...): an exception
\* raised while evaluating an argument comes first, then pydantic validates
\* the fields.
ReceiptScanResult(kw) ==
    LET errors == (IF ValidStr(kw.vendor) THEN 0 ELSE 1)
                  + (IF ValidStr(kw.date) THEN 0 ELSE 1)
                  + (IF ValidStr(kw.currency) THEN 0 ELSE 1)
                  + (IF ValidStr(kw.category) THEN 0 ELSE 1)
                  + (IF ValidOptionalStr(kw.payment_method) THEN 0 ELSE 1)
                  + (IF ValidOptionalStr(kw.receipt_number) THEN 0 ELSE 1)
    IN  IF ~kw.amount.ok THEN kw.amount
        ELSE IF ~kw.line_items.ok THEN kw.line_items
        ELSE IF ~kw.confidence_score.ok THEN kw.confidence_score
        ELSE IF errors > 0
            THEN [ok |-> FALSE, val |-> <<>>,
                  exc |-> ValidationError(errors, "ReceiptScanResult")]
        ELSE Built([vendor           |-> kw.vendor.v,
                    date             |-> kw.date.v,
                    amount           |-> kw.amount.val,
                    currency         |-> kw.currency.v,
                    category         |-> kw.category.v,
                    payment_method   |-> kw.payment_method,
                    receipt_number   |-> kw.receipt_number,
                    line_items       |-> kw.line_items.val,
                    confidence_score |-> kw.confidence_score.val])

\* Lines 422-432 on the value json.loads returned.
BuildResult(result) ==
    IF result.t # "dict"
    THEN Failed("AttributeError",
                "'" \o PyType(result) \o "' object has no attribute 'get'")
    ELSE ReceiptScanResult(KeywordArguments(result))

\* Lines 415-418: the text inside a Markdown code block, if there is one.
StripFences(text) ==
    IF Contains(text, FenceJson) THEN Split(Split(text, FenceJson)[2], Fence)[1]
    ELSE IF Contains(text, Fence) THEN Split(Split(text, Fence)[2], Fence)[1]
    ELSE text

(***************************************************************************)
(* Provider texts: the text block of a 200 reply.                          *)
(***************************************************************************)
FullObject ==
    "{\"vendor\":\"Cafe\",\"date\":\"2024-03-05\",\"amount\":12.5,"
    \o "\"currency\":\"EUR\",\"category\":\"Travel\",\"payment_method\":\"Cash\","
    \o "\"receipt_number\":\"R7\",\"line_items\":[{\"description\":\"Tea\","
    \o "\"quantity\":2,\"unit_price\":2.5,\"total\":5}],\"confidence_score\":0.9}"

EmptyObject == "{}"

\* Well-formed objects with the fence delimiter inside a string value.
OneFenceObject == "{\"vendor\":\"A" \o Fence \o "B\"}"

TwoFenceObject == "{\"notes\":\"" \o Fence \o "{}" \o Fence \o "\"}"

Objects == {FullObject, EmptyObject, OneFenceObject, TwoFenceObject}

FencedJson(text) == FenceJson \o "\n" \o text \o "\n" \o Fence

FencedPlain(text) == Fence \o "\n" \o text \o "\n" \o Fence

Texts ==
    Objects
    \cup {FencedJson(j) : j \in Objects}
    \cup {FencedPlain(j) : j \in Objects}
    \cup {"Here is the data:\n" \o FencedJson(FullObject) \o "\nLet me know.",
          FencedPlain("7") \o "\n" \o FencedJson(EmptyObject),
          FenceJson \o "\n" \o EmptyObject,
          "",
          "Sorry, I cannot read this receipt.",
          "{\"vendor\":\"Cafe\"",
          "{\"vendor\":\"Cafe\",}",
          "[]",
          "7",
          "null",
          "NaN",
          "{\"amount\":NaN}",
          "{\"amount\":\"abc\"}",
          "{\"vendor\":null}",
          "{\"line_items\":[{\"quantity\":1}]}"}

Replies ==
    {Response(200, TRUE, TRUE, "ok", t) : t \in Texts}
    \cup {Response(200, TRUE, TRUE, sh, "") : sh \in BadShapes}
    \cup {Response(200, ct, FALSE, "", "") : ct \in BOOLEAN}
    \cup {Response(st, FALSE, b, "", "") : st \in ErrorStatuses, b \in BOOLEAN}
    \cup {Response(st, TRUE, b, IF b THEN "no_content" ELSE "", "") :
              st \in ErrorStatuses, b \in BOOLEAN}
    \cup {Raised("transport_error", m) : m \in TransportMessages}
    \cup {Raised("timeout", m) : m \in TimeoutMessages}

(***************************************************************************)
(* The state: one record of local variables per scan_receipt invocation,   *)
(* and the expenses collection with what its clients have been told.       *)
(***************************************************************************)
NumInvocations == 2

Invocations == 1..NumInvocations

VARIABLES
    pc,             \* the statement each invocation is at
    file,           \* the upload
    content,        \* the bytes read, then the JPEG bytes
    detected_type,
    img,            \* the Pillow image
    encodes,        \* the img.save calls made: quality and size written
    requests,       \* the requests posted to the provider
    reply,          \* what the provider call gave
    response_text,
    result,         \* json.loads(response_text.strip())
    outcome,        \* what the caller gets: a result or an HTTP error
    cause,          \* what went wrong, when something did
    expenses,       \* db.expenses: the documents, in insertion order
    now,            \* datetime.now(timezone.utc), as a count of ticks
    created,        \* the expense_ids create_expense returned, each with its user
    deleted,        \* the expense_ids a delete_one or delete_many removed
    response,       \* the last response of an expense or auth endpoint
    user_sessions,  \* db.user_sessions: the documents, in insertion order
    users,          \* db.users: the documents, in insertion order
    request,        \* the cookie and the Authorization header of the last request
    logged_out      \* the session_tokens of the sessions logout removed,
                    \* but for those given to a session created since

auth == <<user_sessions, users, request, logged_out>>

store == <<expenses, now, created, deleted, response, auth>>

scan == <<pc, file, content, detected_type, img, encodes, requests, reply,
          response_text, result, outcome, cause>>

vars == <<scan, store>>

NoUser == ""

NoResponse == [op |-> "", user_id |-> NoUser, expense_id |-> 0, out |-> NoOutcome]

\* A request: its session_token cookie and its Authorization header, "" for
\* one that is not sent.
Request(cookie, authorization) ==
    [cookie |-> cookie, authorization |-> authorization]

NoRequest == Request("", "")

Start ==
    /\ expenses = <<>>
    /\ now = 0
    /\ created = {}
    /\ deleted = {}
    /\ response = NoResponse
    /\ user_sessions = <<>>
    /\ users = <<>>
    /\ request = NoRequest
    /\ logged_out = {}
    /\ pc =[i \in Invocations |-> "idle"]
    /\ file = [i \in Invocations |-> NoFile]
    /\ content = [i \in Invocations |-> NoFile]
    /\ detected_type = [i \in Invocations |-> ""]
    /\ img = [i \in Invocations |-> NoImage]
    /\ encodes = [i \in Invocations |-> <<>>]
    /\ requests = [i \in Invocations |-> <<>>]
    /\ reply = [i \in Invocations |-> NoReply]
    /\ response_text = [i \in Invocations |-> Null]
    /\ result = [i \in Invocations |-> Null]
    /\ outcome = [i \in Invocations |-> NoOutcome]
    /\ cause = [i \in Invocations |-> ""]

\* The invocation ends: what the caller gets, and the kind of failure.
EndShared(i, out, why) ==
    /\ outcome' = [j \in Invocations |-> out]
    /\ cause' = [cause EXCEPT ![i] = why]
    /\ pc' = [pc EXCEPT ![i] = "done"]
    /\ UNCHANGED store

End(i, out, why) ==
    /\ outcome' = [outcome EXCEPT ![i] = out]
    /\ cause' = [cause EXCEPT ![i] = why]
    /\ pc' = [pc EXCEPT ![i] = "done"]
    /\ UNCHANGED store

\* raise HTTPException, or an except clause raising one.
Fail(i, error, why) == End(i, error, why)

\* return ReceiptScanResult(...)
Return(i, value) == End(i, Returned(value), "")

Goto(i, label) ==
    /\ pc' = [pc EXCEPT ![i] = label]
    /\ UNCHANGED <<outcome, cause, store>>

\* content = await file.read()
ReadUpload(i, files) ==
    /\ pc[i] = "idle"
    /\ \E f \in files : /\ file' = [file EXCEPT ![i] = f]
                        /\ content' = [content EXCEPT ![i] = f]
    /\ Goto(i, "detect")
    /\ UNCHANGED <<detected_type, img, encodes, requests, reply, response_text,
                   result>>

\* Lines 300-313: detect the type; a PDF is rejected.
DetectFormat(i) ==
    /\ pc[i] = "detect"
    /\ detected_type' = [detected_type EXCEPT ![i] = DetectType(content[i].head)]
    /\ IF detected_type'[i] = "application/pdf"
       THEN Fail(i, UnsupportedFormat, "unsupported_format")
       ELSE Goto(i, "open")
    /\ UNCHANGED <<file, content, img, encodes, requests, reply, response_text, result>>

\* Lines 317-321: PILImage.open and the conversion to RGB.
OpenImage(i, images) ==
    /\ pc[i] = "open"
    /\ \/ /\ \E im \in Decodings(content[i], images) :
                 img' = [img EXCEPT ![i] = ConvertRGB(im)]
          /\ Goto(i, "resize")
       \/ /\ Fail(i, ImageHandler(Exception("UnidentifiedImageError",
                                            "cannot identify image file")),
                  "decode_error")
          /\ UNCHANGED img
    /\ UNCHANGED <<file, content, detected_type, encodes, requests, reply,
                   response_text, result>>

\* Lines 324-328: an image over 1500 px is resized; Image.resize raises
\* ValueError for a size with a zero side.
Resize(i) ==
    /\ pc[i] = "resize"
    /\ IF ~NeedsResize(img[i])
       THEN Goto(i, "encode") /\ UNCHANGED img
       ELSE IF NewSize(img[i]).width < 1 \/ NewSize(img[i]).height < 1
       THEN /\ Fail(i, ImageHandler(Exception("ValueError",
                                              "height and width must be > 0")),
                    "decode_error")
            /\ UNCHANGED img
       ELSE /\ img' = [img EXCEPT ![i] = [mode   |-> @.mode,
                                          width  |-> NewSize(@).width,
                                          height |-> NewSize(@).height]]
            /\ Goto(i, "encode")
    /\ UNCHANGED <<file, content, detected_type, encodes, requests, reply,
                   response_text, result>>

\* img.save(buffer, format='JPEG', quality=q): the bytes replace content.
Save(i, quality, size) ==
    /\ encodes' = [encodes EXCEPT ![i] = Append(@, [quality |-> quality,
                                                    size    |-> size])]
    /\ content' = [content EXCEPT ![i] = JpegFile(size)]

\* Lines 331-337: encode at quality 85; the type is JPEG from here on.
Encode(i, sizes) ==
    /\ pc[i] = "encode"
    /\ \E n \in EncodedSizes(img[i], sizes) :
          /\ Save(i, 85, n)
          /\ Goto(i, IF TooLarge(n) THEN "reencode" ELSE "send")
    /\ detected_type' = [detected_type EXCEPT ![i] = "image/jpeg"]
    /\ UNCHANGED <<file, img, requests, reply, response_text, result>>

\* Lines 338-340: one more encoding, at quality 50.
Reencode(i, sizes) ==
    /\ pc[i] = "reencode"
    /\ \E n \in EncodedSizes(img[i], sizes) : Save(i, 50, n)
    /\ Goto(i, "send")
    /\ UNCHANGED <<file, detected_type, img, requests, reply, response_text,
                   result>>

\* The image block of the request body (lines 389-394), with the pixel size
\* of the image the data holds.
ImageBlock(i) ==
    [media_type |-> detected_type[i], size |-> content[i].size,
     width |-> img[i].width, height |-> img[i].height]

\* Lines 346-404: base64 and the POST to the provider.
SendRequest(i) ==
    /\ pc[i] = "send"
    /\ requests' = [requests EXCEPT ![i] = Append(@, ImageBlock(i))]
    /\ Goto(i, "await")
    /\ UNCHANGED <<file, content, detected_type, img, encodes, reply, response_text,
                   result>>

\* The await of the POST ends: a response, or an httpx exception, which the
\* last except clause handles.
ProviderRepliesWithRetry(i, replies) ==
    /\ pc[i] = "await"
    /\ \E r \in replies :
          /\ reply' = [reply EXCEPT ![i] = r]
          /\ IF r.kind = "response" THEN Goto(i, "status")
             ELSE IF Len(requests[i]) < 2 THEN Goto(i, "send")
             ELSE Fail(i, ScanHandler(Exception(r.kind, r.msg)), r.kind)
    /\ UNCHANGED <<file, content, detected_type, img, encodes, requests,
                   response_text, result>>

ProviderRepliesNoTimeout(i, replies) ==
    /\ pc[i] = "await"
    /\ \E r \in {x \in replies : x.kind # "timeout"} :
          /\ reply' = [reply EXCEPT ![i] = r]
          /\ IF r.kind = "response" THEN Goto(i, "status")
             ELSE Fail(i, ScanHandler(Exception(r.kind, r.msg)), r.kind)
    /\ UNCHANGED <<file, content, detected_type, img, encodes, requests,
                   response_text, result>>

ProviderReplies(i, replies) ==
    /\ pc[i] = "await"
    /\ \E r \in replies :
          /\ reply' = [reply EXCEPT ![i] = r]
          /\ IF r.kind = "response" THEN Goto(i, "status")
             ELSE Fail(i, ScanHandler(Exception(r.kind, r.msg)), r.kind)
    /\ UNCHANGED <<file, content, detected_type, img, encodes, requests,
                   response_text, result>>

\* Line 406: the statuses taken as an error of the provider.
IsProviderError(status) == status # 200

\* Lines 406-412: the status check, then the text of the first content block.
CheckStatus(i) ==
    /\ pc[i] = "status"
    /\ LET r == reply[i] IN
       IF IsProviderError(r.status)
       THEN /\ IF r.json_type /\ ~r.json_body
               THEN Fail(i, ScanHandler(Exception("JSONDecodeError", "")),
                         "provider_error")
               ELSE Fail(i, ScanHandler(HTTPException(500,
                             "AI service error: " \o ToString(r.status))),
                         "provider_error")
            /\ UNCHANGED response_text
       ELSE IF ~r.json_body
       THEN /\ Fail(i, ScanHandler(Exception("JSONDecodeError", "")),
                    "malformed_response")
            /\ UNCHANGED response_text
       ELSE IF r.shape \in BadShapes \ {"null_text"}
       THEN /\ Fail(i, ScanHandler(ShapeError(r.shape)), "malformed_response")
            /\ UNCHANGED response_text
       ELSE /\ response_text' = [response_text EXCEPT ![i] =
                   IF r.shape = "null_text" THEN Null ELSE Str(r.text)]
            /\ Goto(i, "strip")
    /\ UNCHANGED <<file, content, detected_type, img, encodes, requests, reply, result>>

\* Lines 415-418.
CleanUp(i) ==
    /\ pc[i] = "strip"
    /\ IF response_text[i].t # "str"
       THEN /\ Fail(i, ScanHandler(ShapeError("null_text")), "malformed_response")
            /\ UNCHANGED response_text
       ELSE /\ response_text' = [response_text EXCEPT ![i] = Str(StripFences(@.v))]
            /\ Goto(i, "parse")
    /\ UNCHANGED <<file, content, detected_type, img, encodes, requests, reply, result>>

\* Line 420.
ParseJson(i) ==
    /\ pc[i] = "parse"
    /\ LET r == JsonLoads(Strip(response_text[i].v)) IN
       IF r.ok
       THEN result' = [result EXCEPT ![i] = r.val] /\ Goto(i, "build")
       ELSE /\ Fail(i, ScanHandler(Exception("JSONDecodeError", "")),
                    "malformed_response")
            /\ UNCHANGED result
    /\ UNCHANGED <<file, content, detected_type, img, encodes, requests, reply,
                   response_text>>

\* Lines 422-432.
Assemble(i) ==
    /\ pc[i] = "build"
    /\ LET b == BuildResult(result[i]) IN
       IF b.ok THEN Return(i, b.val)
       ELSE Fail(i, ScanHandler(b.exc), "malformed_response")
    /\ UNCHANGED <<file, content, detected_type, img, encodes, requests, reply,
                   response_text, result>>

\* One step of one of the invocations in scans, on the given inputs.
Step(scans, files, images, sizes, replies) ==
    \E i \in scans :
        \/ ReadUpload(i, files)
        \/ DetectFormat(i)
        \/ OpenImage(i, images)
        \/ Resize(i)
        \/ Encode(i, sizes)
        \/ Reencode(i, sizes)
        \/ SendRequest(i)
        \/ ProviderReplies(i, replies)
        \/ CheckStatus(i)
        \/ CleanUp(i)
        \/ ParseJson(i)
        \/ Assemble(i)

\* One invocation, on every input modelled.
Init == Start

Next == Step({1}, Files, Images, SizeChoices, Replies)

Spec == Init /\ [][Next]_vars

(***************************************************************************)
(* Two invocations side by side, on a few inputs: a PDF, an undecodable    *)
(* file and a JPEG whose encodings both exceed 3 MB; replies of every kind *)
(* of failure, and objects with and without fences.                        *)
(***************************************************************************)
PairFiles ==
    {[head |-> PdfHead, size |-> 65536], [head |-> <<>>, size |-> 0],
     [head |-> JpegHead, size |-> 65536]}

PairImages == {[mode |-> "RGB", width |-> 1500, height |-> 1500]}

PairSizes == {MaxBytes + 1}

PairTexts ==
    {EmptyObject, FencedJson(EmptyObject), FencedPlain(EmptyObject),
     TwoFenceObject, FencedJson(TwoFenceObject), FencedPlain(TwoFenceObject),
     FencedPlain("7") \o "\n" \o FencedJson(EmptyObject),
     "Sorry, I cannot read this receipt."}

PairReplies ==
    {Response(200, TRUE, TRUE, "ok", t) : t \in PairTexts}
    \cup {Response(200, TRUE, FALSE, "", ""),
          Response(200, TRUE, TRUE, "no_content", ""),
          Response(500, TRUE, FALSE, "", ""),
          Response(500, FALSE, FALSE, "", ""),
          Raised("transport_error", ""),
          Raised("timeout", "")}

SpecPair ==
    Init /\ [][Step({1, 2}, PairFiles, PairImages, PairSizes, PairReplies)]_vars

(***************************************************************************)
(* Properties.                                                             *)
(***************************************************************************)
StartsWith(s, prefix) ==
    Len(s) >= Len(prefix) /\ SubSeq(s, 1, Len(prefix)) = prefix

\* The type the byte signature of an upload stands for.
SignatureType(head) ==
    IF StartsWith(head, PngSignature) THEN "image/png"
    ELSE IF StartsWith(head, JpegSignature) THEN "image/jpeg"
    ELSE IF StartsWith(head, Riff) /\ Len(head) >= 12 /\ SubSeq(head, 9, 12) = Webp
        THEN "image/webp"
    ELSE "image/jpeg"

\* C1: format detection depends only on the byte signature of the upload.
\* An upload with the %PDF prefix ends the scan with the unsupported-format
\* error (HTTP 400) and no other upload does; until the image is encoded,
\* the detected type is image/png for the 8-byte PNG prefix, image/jpeg for
\* the FF D8 prefix, image/webp for RIFF at bytes 0-3 with WEBP at bytes
\* 8-11, and image/jpeg for every other prefix, the empty one included.
FormatDetectionBySignature ==
    \A i \in Invocations :
        pc[i] \notin {"idle", "detect"} =>
            IF StartsWith(file[i].head, PdfSignature)
            THEN /\ pc[i] = "done"
                 /\ outcome[i].kind = "error"
                 /\ outcome[i].status = 400
                 /\ cause[i] = "unsupported_format"
            ELSE /\ cause[i] # "unsupported_format"
                 /\ (encodes[i] = <<>> =>
                        detected_type[i] = SignatureType(file[i].head))

\* An upload with the WEBP signature has been detected as image/webp.
WebpDetected ==
    /\ pc[1] = "open"
    /\ file[1].head = WebpHead
    /\ detected_type[1] = "image/webp"

\* C2: the resize step leaves an image wider or taller than 1500 px with its
\* larger dimension exactly 1500 px and each dimension within one pixel of
\* the proportional one, and leaves an image within 1500 px as it is.
ResizeToExactly1500 ==
    [][\A i \in Invocations :
          (pc[i] = "resize" /\ pc'[i] = "encode") =>
              IF img[i].width > 1500 \/ img[i].height > 1500
              THEN /\ Max({img'[i].width, img'[i].height}) = 1500
                   /\ img'[i].width * img[i].height - img'[i].height * img[i].width
                          \in (0 - Max({img[i].width, img[i].height}))
                                  ..Max({img[i].width, img[i].height})
              ELSE img'[i] = img[i]]_vars

\* An image 2147 px wide has been resized to 1499 px.
ResizedTo1499 ==
    /\ pc[1] = "encode"
    /\ img[1].width = 1499
    /\ img[1].height <= 1499

\* C3: the image is encoded at most twice, first at quality 85 and a second
\* time, at quality 50, exactly when the first encoding is larger than
\* 3*1024*1024 bytes; the bytes sent on are the last encoding, so they are
\* at most 3 MB or the result of the second attempt.
TwoAttemptEncoding ==
    \A i \in Invocations :
        LET e == encodes[i] IN
        /\ Len(e) <= 2
        /\ (Len(e) >= 1 => e[1].quality = 85)
        /\ (Len(e) = 2 => e[2].quality = 50 /\ e[1].size > 3145728)
        /\ (pc[i] \in {"send", "await", "status", "strip", "parse", "build"}
               \/ requests[i] # <<>>) =>
              /\ Len(e) >= 1
              /\ (e[1].size > 3145728 => Len(e) = 2)
              /\ content[i].size = e[Len(e)].size
              /\ (content[i].size <= 3145728 \/ Len(e) = 2)
        /\ \A k \in 1..Len(requests[i]) : requests[i][k].size = e[Len(e)].size

\* A second encoding was made and sent, itself larger than 3 MB.
SecondEncodingSent ==
    /\ Len(encodes[1]) = 2
    /\ Len(requests[1]) = 1
    /\ requests[1][1].size > 3145728

\* C4: every request sent to the provider declares the image as image/jpeg,
\* whatever type was detected from the upload, and holds an image with
\* neither dimension over 1500 px.
SentAsBoundedJpeg ==
    \A i \in Invocations :
        \A k \in 1..Len(requests[i]) :
            /\ requests[i][k].media_type = "image/jpeg"
            /\ requests[i][k].width <= 1500
            /\ requests[i][k].height <= 1500

\* A PNG upload of 3000 px was sent as a JPEG of 1500 px.
PngSentAsJpeg ==
    /\ SignatureType(file[1].head) = "image/png"
    /\ Len(requests[1]) = 1
    /\ requests[1][1].media_type = "image/jpeg"
    /\ requests[1][1].width = 1500
    /\ requests[1][1].height = 1500

ProviderFailed(i) ==
    \/ reply[i].kind \in {"transport_error", "timeout"}
    \/ /\ reply[i].kind = "response"
       /\ pc[i] # "status"
       /\ (reply[i].status < 200 \/ reply[i].status > 299)

\* C5: an invocation sends exactly one request once the image is normalized
\* and none when the upload is rejected or fails to decode; after a provider
\* failure (non-2xx, transport error, timeout) the invocation has ended with
\* an error and its single request.
OneRequestNoRetry ==
    \A i \in Invocations :
        /\ Len(requests[i]) <= 1
        /\ (pc[i] \in {"idle", "detect", "open", "resize", "encode", "reencode",
                       "send"} => requests[i] = <<>>)
        /\ (pc[i] \in {"await", "status", "strip", "parse", "build"} =>
               Len(requests[i]) = 1)
        /\ (pc[i] = "done" =>
               /\ (requests[i] = <<>>) <=>
                      (cause[i] \in {"unsupported_format", "decode_error"})
               /\ (requests[i] = <<>>) <=> (encodes[i] = <<>>))
        /\ (ProviderFailed(i) =>
               /\ pc[i] = "done"
               /\ outcome[i].kind = "error"
               /\ Len(requests[i]) = 1)

\* The provider call timed out and the invocation ended with an error.
TimeoutReturnedAfterOneRequest ==
    /\ pc[1] = "done"
    /\ reply[1].kind = "timeout"
    /\ Len(requests[1]) = 1
    /\ outcome[1].kind = "error"

\* C6: a provider response is reported as a provider error carrying its
\* status exactly when the status is not 2xx; a 2xx response goes on to the
\* parser and is not reported as a provider error.
ProviderErrorIffNot2xx ==
    \A i \in Invocations :
        (reply[i].kind = "response" /\ pc[i] # "status") =>
            ((/\ pc[i] = "done"
              /\ outcome[i] = HTTPError(500, "AI service error: "
                                                 \o ToString(reply[i].status)))
                <=> (reply[i].status < 200 \/ reply[i].status > 299))

\* A 201 response with a readable body was reported as a provider error.
CreatedReportedAsError ==
    /\ reply[1].kind = "response"
    /\ reply[1].status = 201
    /\ reply[1].json_body
    /\ outcome[1].detail = "AI service error: 201"

FailureKinds ==
    {"unsupported_format", "decode_error", "provider_error", "transport_error",
     "timeout", "malformed_response"}

EndedInError(i) == pc[i] = "done" /\ outcome[i].kind = "error"

\* C7: every failure is of one of the six kinds, and two failures of
\* different kinds differ in the error returned (status and detail).
FailuresDistinguishable ==
    /\ \A i \in Invocations : EndedInError(i) => cause[i] \in FailureKinds
    /\ \A i, j \in Invocations :
           (EndedInError(i) /\ EndedInError(j) /\ cause[i] # cause[j]) =>
               <<outcome[i].status, outcome[i].detail>>
                   # <<outcome[j].status, outcome[j].detail>>

\* A transport error and a timeout were returned as the same error.
TransportAndTimeoutAlike ==
    /\ EndedInError(1) /\ EndedInError(2)
    /\ cause[1] = "transport_error"
    /\ cause[2] = "timeout"
    /\ outcome[1] = outcome[2]

\* C8: an error is 4xx exactly for the input errors (a PDF, an image that
\* cannot be decoded or processed) and 5xx for every provider failure and
\* every failure to parse or validate the reply; nothing that fails after
\* the image was encoded is 4xx.
CallerFaultOnlyForInput ==
    \A i \in Invocations :
        EndedInError(i) =>
            /\ outcome[i].status \in 400..599
            /\ (outcome[i].status \in 400..499) <=>
                   (cause[i] \in {"unsupported_format", "decode_error"})
            /\ (outcome[i].status \in 400..499) <=> (requests[i] = <<>>)
            /\ (encodes[i] # <<>> => outcome[i].status \in 500..599)

\* A reply without content blocks was returned as a 500 after the request.
MissingContentIs500 ==
    /\ EndedInError(1)
    /\ reply[1].shape = "no_content"
    /\ reply[1].status = 200
    /\ Len(requests[1]) = 1
    /\ outcome[1].status = 500

\* The content between the first opening fence (the fence delimiter, with
\* json after it or not) and the next delimiter; text without a delimiter
\* as it is.
FirstFencedBlock(text) ==
    LET at == Occurrences(text, Fence) IN
    IF at = {} THEN text
    ELSE LET first == Min(at)
             start == IF StartsAt(text, first, FenceJson)
                      THEN first + Len(FenceJson) ELSE first + Len(Fence)
             later == {q \in at : q >= start}
             stop  == IF later = {} THEN Len(text) + 1 ELSE Min(later)
         IN  SubSeq(text, start, stop - 1)

TextReply(i, text) ==
    /\ pc[i] = "done"
    /\ reply[i] = Response(200, TRUE, TRUE, "ok", text)

\* C9: the text handed to the JSON parser is the content between the first
\* opening fence and the next delimiter, or the whole text when there is no
\* fence; and a well-formed object in a json fence or a plain fence gives
\* the same outcome as the object unfenced.
FenceStripping ==
    /\ \A i \in Invocations :
           pc[i] \in {"parse", "build"} =>
               response_text[i].v = FirstFencedBlock(reply[i].text)
    /\ \A i, j \in Invocations : \A object \in Objects :
           (/\ TextReply(i, object)
            /\ TextReply(j, FencedJson(object)) \/ TextReply(j, FencedPlain(object)))
               => outcome[i] = outcome[j]

\* The same object gave a result unfenced and an error in a json fence.
FencedDiffersFromUnfenced ==
    /\ TextReply(1, TwoFenceObject)
    /\ TextReply(2, FencedJson(TwoFenceObject))
    /\ outcome[1].kind = "result"
    /\ outcome[2].kind = "error"

\* C10: a text that, after fence stripping, is not syntactically valid JSON
\* ends the invocation with the error 'Failed to parse AI response'; and
\* every invocation that ends gives a result or an HTTP error.
InvalidJsonIsMalformedResponse ==
    \A i \in Invocations :
        /\ (pc[i] = "done" => outcome[i].kind \in {"result", "error"})
        /\ (/\ pc[i] \in {"build", "done"}
            /\ response_text[i].t = "str"
            /\ ~Decode(Strip(response_text[i].v), FALSE).ok)
               => /\ pc[i] = "done"
                  /\ outcome[i] = HTTPError(500, "Failed to parse AI response")

\* The text NaN, which is not JSON, was parsed and failed later on.
NaNParsed ==
    /\ pc[1] = "done"
    /\ reply[1].text = "NaN"
    /\ response_text[1] = Str("NaN")
    /\ outcome[1].kind = "error"
    /\ outcome[1].detail # "Failed to parse AI response"

(***************************************************************************)
(* One invocation on a valid upload and a 200 reply: the parser on many    *)
(* provider texts.  An extraction object is written member by member.      *)
(***************************************************************************)
FieldNames ==
    <<"vendor", "date", "amount", "currency", "category", "payment_method",
      "receipt_number", "line_items", "confidence_score">>

\* The JSON text of each field of the sample extraction, as in FullObject.
SampleTexts ==
    [vendor           |-> "\"Cafe\"",
     date             |-> "\"2024-03-05\"",
     amount           |-> "12.5",
     currency         |-> "\"EUR\"",
     category         |-> "\"Travel\"",
     payment_method   |-> "\"Cash\"",
     receipt_number   |-> "\"R7\"",
     line_items       |-> "[{\"description\":\"Tea\",\"quantity\":2,"
                              \o "\"unit_price\":2.5,\"total\":5}]",
     confidence_score |-> "0.9"]

Member(name, text) == "\"" \o name \o "\":" \o text

RECURSIVE Join(_)
Join(texts) ==
    IF texts = <<>> THEN ""
    ELSE IF Len(texts) = 1 THEN texts[1]
    ELSE texts[1] \o "," \o Join(Tail(texts))

\* The object with the fields of texts whose positions are in present, in
\* the order of FieldNames.
ObjectOf(texts, present) ==
    LET at == [k \in 1..Cardinality(present) |->
                  CHOOSE n \in present :
                      Cardinality({m \in present : m < n}) = k - 1]
    IN  "{" \o Join([k \in 1..Cardinality(present) |->
                        Member(FieldNames[at[k]], texts[FieldNames[at[k]]])])
            \o "}"

\* The sample extraction with every subset of its fields left out.
SubsetObjects == [present \in SUBSET (1..Len(FieldNames)) |->
                     ObjectOf(SampleTexts, present)]

Quote(s) == "\"" \o s \o "\""

\* The object with the one field name.
FieldObject(name, text) == "{" \o Member(name, text) \o "}"

\* The taxonomy the prompt names (lines 275-286).
CATEGORIES ==
    <<"Meals & Dining", "Travel", "Office Supplies", "Equipment",
      "Software & Subscriptions", "Utilities", "Marketing",
      "Professional Services", "Transportation", "Other">>

Decimal(n, d) == [n |-> n, d |-> d, sp |-> ""]

\* Confidence values a provider may give: the text and the number.
ConfidenceCases ==
    {<<"-1", Decimal(-1, 0)>>, <<"2.5", Decimal(25, 1)>>, <<"0", Decimal(0, 0)>>,
     <<"1", Decimal(1, 0)>>, <<"0.25", Decimal(25, 2)>>}

\* Category texts a provider may give: the labels, and two that are none.
CategoryCases ==
    {CATEGORIES[k] : k \in 1..Len(CATEGORIES)} \cup {"Groceries", "travel"}

\* line_items with a malformed element: no description, after a valid
\* element, not an object, a null description.
MalformedItems ==
    {"[{\"quantity\":1}]",
     "[{\"description\":\"Tea\"},{\"quantity\":1}]",
     "[7]",
     "[{\"description\":null}]"}

\* Negative amounts.
NegativeAmounts == {"-3", "-0.01"}

\* Extractions with every field present and valid, as texts: the sample,
\* a category outside the taxonomy, two line items, whole numbers and nulls.
CompleteTexts ==
    {SampleTexts,
     [SampleTexts EXCEPT !.category = Quote("Groceries")],
     [SampleTexts EXCEPT !.line_items =
         "[{\"description\":\"B\",\"quantity\":1,\"unit_price\":3,\"total\":3},"
             \o "{\"description\":\"A\",\"quantity\":2,\"unit_price\":0.5,\"total\":1}]"],
     [SampleTexts EXCEPT !.amount = "12", !.confidence_score = "1",
                         !.payment_method = "null", !.receipt_number = "null"]}

CompleteObjects == [texts \in CompleteTexts |-> ObjectOf(texts, 1..Len(FieldNames))]

\* Scalar fields of the wrong shape: numeric strings, a non-numeric string,
\* nulls.
WrongShapes ==
    {<<"amount", Quote("12.5")>>, <<"confidence_score", Quote("0.9")>>,
     <<"amount", Quote("abc")>>, <<"amount", "null">>, <<"vendor", "null">>,
     <<"currency", "null">>, <<"confidence_score", "null">>}

ParseFiles == {[head |-> JpegHead, size |-> 65536]}

FieldTexts ==
    {FieldObject("confidence_score", c[1]) : c \in ConfidenceCases}
    \cup {FieldObject("category", Quote(c)) : c \in CategoryCases}
    \cup {FieldObject("line_items", t) : t \in MalformedItems}
    \cup {FieldObject("amount", t) : t \in NegativeAmounts}
    \cup {FieldObject(w[1], w[2]) : w \in WrongShapes}
    \cup {CompleteObjects[texts] : texts \in CompleteTexts}

ParseTexts ==
    {SubsetObjects[present] : present \in SUBSET (1..Len(FieldNames))}
    \cup FieldTexts

ParseReplies == {Response(200, TRUE, TRUE, "ok", t) : t \in ParseTexts}

SpecParse ==
    Init /\ [][Step({1}, ParseFiles, PairImages, PairSizes, ParseReplies)]_vars

\* The tabled defaults, as the fields of a result.
DefaultFields ==
    [vendor           |-> "Unknown",
     date             |-> Today,
     amount           |-> Decimal(0, 0),
     currency         |-> "USD",
     category         |-> "Other",
     payment_method   |-> Null,
     receipt_number   |-> Null,
     line_items       |-> <<>>,
     confidence_score |-> Decimal(5, 1)]

\* The values of the sample extraction, as the fields of a result.
SampleFields ==
    [vendor           |-> "Cafe",
     date             |-> "2024-03-05",
     amount           |-> Decimal(125, 1),
     currency         |-> "EUR",
     category         |-> "Travel",
     payment_method   |-> Str("Cash"),
     receipt_number   |-> Str("R7"),
     line_items       |-> <<[description |-> "Tea",
                             quantity    |-> [t |-> "float", v |-> Decimal(2, 0)],
                             unit_price  |-> [t |-> "float", v |-> Decimal(25, 1)],
                             total       |-> [t |-> "float", v |-> Decimal(5, 0)]]>>,
     confidence_score |-> Decimal(9, 1)]

\* C11: for every subset of fields missing from the provider's object the
\* scan returns a result in which each missing field has its tabled default
\* (vendor Unknown, date today, amount 0, currency USD, category Other,
\* payment_method and receipt_number null, line_items empty,
\* confidence_score 0.5) and each field present has the value given; the
\* empty object gives all defaults.
DefaultsForMissingFields ==
    \A i \in Invocations : \A present \in SUBSET (1..Len(FieldNames)) :
        TextReply(i, SubsetObjects[present]) =>
            /\ outcome[i].kind = "result"
            /\ \A k \in 1..Len(FieldNames) :
                   outcome[i].value[FieldNames[k]] =
                       IF k \in present THEN SampleFields[FieldNames[k]]
                       ELSE DefaultFields[FieldNames[k]]

\* The empty object was returned as the result of all defaults.
EmptyObjectGivesDefaults ==
    /\ TextReply(1, EmptyObject)
    /\ outcome[1].kind = "result"
    /\ outcome[1].value = DefaultFields

ReturnedResult(i) == pc[i] = "done" /\ outcome[i].kind = "result"

\* Order and equality of decimals n / 10^d.
AtMost(a, b) == a.n * 10 ^ b.d <= b.n * 10 ^ a.d

SameNumber(a, b) == a.sp = "" /\ b.sp = "" /\ AtMost(a, b) /\ AtMost(b, a)

Clamp01(c) ==
    IF ~AtMost(Decimal(0, 0), c) THEN Decimal(0, 0)
    ELSE IF ~AtMost(c, Decimal(1, 0)) THEN Decimal(1, 0)
    ELSE c

\* C12: the confidence_score of every result is in [0,1], and a numeric
\* confidence c of the provider is returned clamped to [0,1]: -1 as 0 and
\* 2.5 as 1.
ConfidenceClamped ==
    \A i \in Invocations :
        /\ ReturnedResult(i) =>
               /\ outcome[i].value.confidence_score.sp = ""
               /\ AtMost(Decimal(0, 0), outcome[i].value.confidence_score)
               /\ AtMost(outcome[i].value.confidence_score, Decimal(1, 0))
        /\ \A c \in ConfidenceCases :
               TextReply(i, FieldObject("confidence_score", c[1])) =>
                   /\ outcome[i].kind = "result"
                   /\ SameNumber(outcome[i].value.confidence_score, Clamp01(c[2]))

\* The confidence 2.5 was returned as it came.
ConfidenceAboveOne ==
    /\ TextReply(1, FieldObject("confidence_score", "2.5"))
    /\ outcome[1].kind = "result"
    /\ outcome[1].value.confidence_score = Decimal(25, 1)

NormalCategory(text) ==
    IF \E k \in 1..Len(CATEGORIES) : CATEGORIES[k] = text THEN text ELSE "Other"

\* C13: the category of every result is one of the 10 labels: a provider
\* category equal to a label is returned unchanged and every other text is
\* returned as Other.
CategoryInTaxonomy ==
    \A i \in Invocations :
        /\ ReturnedResult(i) =>
               \E k \in 1..Len(CATEGORIES) : outcome[i].value.category = CATEGORIES[k]
        /\ \A c \in CategoryCases :
               TextReply(i, FieldObject("category", Quote(c))) =>
                   /\ outcome[i].kind = "result"
                   /\ outcome[i].value.category = NormalCategory(c)

\* The category Groceries was returned as it came.
GroceriesReturned ==
    /\ TextReply(1, FieldObject("category", Quote("Groceries")))
    /\ outcome[1].kind = "result"
    /\ outcome[1].value.category = "Groceries"

MalformedItem(item) ==
    \/ item.t # "dict"
    \/ ~Has(item, "description")
    \/ Get(item, "description", Null).t # "str"

HasMalformedItem(object) ==
    /\ object.t = "dict"
    /\ Get(object, "line_items", List(<<>>)).t = "list"
    /\ \E k \in 1..Len(Get(object, "line_items", List(<<>>)).v) :
           MalformedItem(Get(object, "line_items", List(<<>>)).v[k])

\* C14: when an element of line_items is malformed the scan returns no
\* result, and fails with the error invalid JSON produces (HTTP 500,
\* 'Failed to parse AI response').
MalformedItemFailsAsInvalidJson ==
    \A i \in Invocations :
        (pc[i] = "done" /\ HasMalformedItem(result[i])) =>
            /\ outcome[i].kind = "error"
            /\ outcome[i] = HTTPError(500, "Failed to parse AI response")

\* A malformed element after a valid one: no result, and an error that is
\* not the one invalid JSON produces.
MalformedItemGenericError ==
    /\ TextReply(1, FieldObject("line_items",
                                "[{\"description\":\"Tea\"},{\"quantity\":1}]"))
    /\ outcome[1].kind = "error"
    /\ outcome[1].status = 500
    /\ outcome[1].detail # "Failed to parse AI response"

\* The fields of two results are the same, numbers compared by value.
SameFields(a, b) ==
    \A k \in 1..Len(FieldNames) :
        IF FieldNames[k] \in {"amount", "confidence_score"}
        THEN SameNumber(a[FieldNames[k]], b[FieldNames[k]])
        ELSE a[FieldNames[k]] = b[FieldNames[k]]

\* The fields of a result with the values of the given texts.
FieldsOf(texts) ==
    [vendor           |-> JsonLoads(texts.vendor).val.v,
     date             |-> JsonLoads(texts.date).val.v,
     amount           |-> JsonLoads(texts.amount).val.v,
     currency         |-> JsonLoads(texts.currency).val.v,
     category         |-> JsonLoads(texts.category).val.v,
     payment_method   |-> JsonLoads(texts.payment_method).val,
     receipt_number   |-> JsonLoads(texts.receipt_number).val,
     line_items       |->
         [k \in 1..Len(JsonLoads(texts.line_items).val.v) |->
             LET item == JsonLoads(texts.line_items).val.v[k] IN
             [description |-> Get(item, "description", Null).v,
              quantity    |-> [t |-> "float", v |-> Get(item, "quantity", Null).v],
              unit_price  |-> [t |-> "float", v |-> Get(item, "unit_price", Null).v],
              total       |-> [t |-> "float", v |-> Get(item, "total", Null).v]]],
     confidence_score |-> JsonLoads(texts.confidence_score).val.v]

\* C15: for an extraction with all fields present and valid the scan
\* returns a result with the same vendor, date, amount, currency,
\* payment_method, receipt_number and confidence_score, the normalized
\* category, and the same line items in the same order.
RoundTrip ==
    \A i \in Invocations : \A texts \in CompleteTexts :
        TextReply(i, CompleteObjects[texts]) =>
            /\ outcome[i].kind = "result"
            /\ SameFields(outcome[i].value,
                          [FieldsOf(texts) EXCEPT !.category = NormalCategory(@)])

\* The sample extraction with category Groceries came back with Groceries.
GroceriesRoundTrip ==
    /\ TextReply(1, CompleteObjects[[SampleTexts EXCEPT !.category = Quote("Groceries")]])
    /\ outcome[1].kind = "result"
    /\ outcome[1].value = [SampleFields EXCEPT !.category = "Groceries"]

\* What a wrong-shaped scalar stands for: the number of a numeric string,
\* else the default of the field.
Coerced(name, text) ==
    IF name \in {"amount", "confidence_score"}
       /\ JsonLoads(text).val.t = "str"
       /\ FloatOfText(JsonLoads(text).val.v).ok
    THEN FloatOfText(JsonLoads(text).val.v).val
    ELSE DefaultFields[name]

\* C16: a scalar field of the wrong shape is coerced (a numeric string for
\* amount or confidence_score becomes that number) or given its default
\* (amount 'abc' or null gives 0, vendor null gives Unknown); the scan
\* returns a result.
WrongShapeTolerated ==
    \A i \in Invocations : \A w \in WrongShapes :
        TextReply(i, FieldObject(w[1], w[2])) =>
            /\ outcome[i].kind = "result"
            /\ SameFields(outcome[i].value,
                          [DefaultFields EXCEPT ![w[1]] = Coerced(w[1], w[2])])

\* The amount 'abc' made the scan fail.
NonNumericAmountFails ==
    /\ TextReply(1, FieldObject("amount", Quote("abc")))
    /\ outcome[1].kind = "error"
    /\ outcome[1].status = 500

\* C17: every result returned has a non-negative amount.
AmountNonNegative ==
    \A i \in Invocations :
        ReturnedResult(i) =>
            /\ outcome[i].value.amount.sp \in {"", "inf"}
            /\ outcome[i].value.amount.n >= 0

\* The amount -3 was returned.
NegativeAmountReturned ==
    /\ TextReply(1, FieldObject("amount", "-3"))
    /\ outcome[1].kind = "result"
    /\ outcome[1].value.amount = Decimal(-3, 0)

(***************************************************************************)
(* Concurrent invocations: every invocation steps, interleaved with the    *)
(* others, on a JPEG and a reply that is an object or a timeout.           *)
(***************************************************************************)
OneFile == {[head |-> JpegHead, size |-> 65536]}

FewFiles == {[head |-> PdfHead, size |-> 65536]} \cup OneFile

FewReplies == {Response(200, TRUE, TRUE, "ok", EmptyObject), Raised("timeout", "")}

StepOf(i) == Step({i}, OneFile, PairImages, PairSizes, FewReplies)

SpecConcurrent == Init /\ [][\E i \in Invocations : StepOf(i)]_vars

\* What an invocation has been given: the upload, what Pillow made of it,
\* and the provider's reply.
SameInputs(i, j) ==
    /\ file[i] = file[j]
    /\ img[i] = img[j]
    /\ encodes[i] = encodes[j]
    /\ reply[i] = reply[j]

Locals(i) ==
    <<pc[i], file[i], content[i], detected_type[i], img[i], encodes[i],
      requests[i], reply[i], response_text[i], result[i], outcome[i], cause[i]>>

\* C18: in every interleaving, invocations given the same upload and the
\* same reply end with the same outcome, whichever ran alone and whichever
\* ran among the others; a step changes the variables of one invocation
\* only; and while an invocation waits for the provider every other
\* unfinished invocation can take its next step.
IndependentInvocations ==
    /\ [](\A i, j \in Invocations :
             (pc[i] = "done" /\ pc[j] = "done" /\ SameInputs(i, j)) =>
                 outcome[i] = outcome[j])
    /\ [][\A i, j \in Invocations :
             (Locals(i)' # Locals(i) /\ Locals(j)' # Locals(j)) => i = j]_vars
    /\ [](\A i, j \in Invocations :
             (i # j /\ pc[i] = "await" /\ pc[j] # "done") => ENABLED StepOf(j))

\* One invocation has returned its result while the other, which sent its
\* request, still waits.
OneDoneOneWaiting ==
    /\ TextReply(1, EmptyObject)
    /\ outcome[1].kind = "result"
    /\ pc[2] = "await"
    /\ Len(requests[2]) = 1

(***************************************************************************)
(* Liveness.  An invocation that has started is a task of the event loop,  *)
(* which runs every task that can run; the POST is awaited with            *)
(* timeout=60.0, so the await ends with a response or with an exception.   *)
(* Invocation 1 meets a provider that may answer and invocation 2 one that *)
(* never responds, for which the only end of the await is the timeout.     *)
(* Whether an invocation starts is up to the client.                       *)
(***************************************************************************)
SilentProvider == {Raised("timeout", "")}

LiveStep(i) ==
    Step({i}, FewFiles, PairImages, PairSizes,
         IF i = 1 THEN FewReplies ELSE SilentProvider)

Running(i) == pc[i] # "idle" /\ LiveStep(i)

SpecLive ==
    /\ Init
    /\ [][\E i \in {1, 2} : LiveStep(i)]_vars
    /\ \A i \in {1, 2} : WF_vars(Running(i))

CompleteResult(i) ==
    /\ outcome[i].kind = "result"
    /\ DOMAIN outcome[i].value = {FieldNames[k] : k \in 1..Len(FieldNames)}

ExplicitError(i) ==
    /\ outcome[i].kind = "error"
    /\ outcome[i].status \in 400..599
    /\ outcome[i].detail # ""

\* C19: every invocation that starts eventually ends, so none waits for the provider
\* forever; it ends with a complete result or an explicit error, and when
\* the wait ends by the timeout it ends with a failure.
EventuallyEnds ==
    /\ \A i \in Invocations : (pc[i] # "idle") ~> (pc[i] = "done")
    /\ [](\A i \in Invocations :
             pc[i] = "done" => CompleteResult(i) \/ ExplicitError(i))
    /\ [](\A i \in Invocations :
             (pc[i] = "done" /\ reply[i].kind = "timeout") =>
                 ExplicitError(i) /\ outcome[i].status = 500)

\* An invocation whose provider never responded ended with the failure of
\* the timeout.
TimedOutAndEnded ==
    /\ pc[2] = "done"
    /\ Len(requests[2]) = 1
    /\ reply[2].kind = "timeout"
    /\ outcome[2] = HTTPError(500, "Failed to scan receipt: ")

(***************************************************************************)
(* The expense endpoints.  Each handler makes one call on db.expenses,     *)
(* which MongoDB carries out atomically, so each handler is one action.    *)
(* current_user is the user get_current_user resolved the request to.      *)
(***************************************************************************)
Users == {"user_a", "user_b"}

\* The expense_ids: "exp_" and 12 hex digits of a uuid4, numbered in the order
\* create_expense gives them out.  Ids are only ever compared for equality.
MaxExpenses == 2

ExpenseIds == 1..MaxExpenses

\* uuid.uuid4(): an id no expense has had.
Unused(used) == ExpenseIds \ {c.expense_id : c \in used}

uuid4(used) == CHOOSE id \in Unused(used) : \A other \in Unused(used) : id <= other

\* The readings of the clock: datetime.now(timezone.utc), in ticks.
Instants == {0, 1}

\* The clock does not go back.
Later(time) == {t \in Instants : t >= time}

\* ExpenseCreate bodies, by a required field and an optional one; the other
\* fields are stored and returned the same way.
CreateBodies ==
    {[vendor |-> Str("Cafe"), notes |-> Str("lunch"),
      tags |-> List(<<Str("food")>>)]}

\* ExpenseUpdate bodies: a field left out is None.
UpdateBodies ==
    {[vendor |-> Null, notes |-> Null, tags |-> Null],
     [vendor |-> Str("Bistro"), notes |-> Null,
      tags |-> List(<<Str("team")>>)]}

\* Expense(user_id=..., **expense.model_dump()).model_dump()
Expense(id, user, body, updated) ==
    [expense_id |-> id, user_id |-> user, vendor |-> body.vendor,
     notes |-> body.notes, tags |-> body.tags, updated_at |-> updated]

\* {"expense_id": expense_id, "user_id": current_user.user_id}, and the same
\* with {"$in": expense_ids}; a query that names no expense_id takes them all.
Query(ids, user) == [expense_ids |-> ids, user_id |-> user]

\* The query without its user_id.
MatchesAnyUser(doc, query) == doc.expense_id \in query.expense_ids

Matches(doc, query) ==
    doc.expense_id \in query.expense_ids /\ doc.user_id = query.user_id

Matching(coll, query) == {k \in 1..Len(coll) : Matches(coll[k], query)}

\* The first document that matches, 0 when there is none.
FirstMatch(coll, query) ==
    IF Matching(coll, query) = {} THEN 0
    ELSE CHOOSE k \in Matching(coll, query) :
             \A l \in Matching(coll, query) : k <= l

\* find_one(query, {"_id": 0}): <<>> for None.
FindOne(coll, query) ==
    IF FirstMatch(coll, query) = 0 THEN <<>>
    ELSE <<coll[FirstMatch(coll, query)]>>

\* {k: v for k, v in update.model_dump().items() if v is not None}
NotNone(body) == {k \in DOMAIN body : body[k] # Null}

\* The document after {"$set": update_dict}.
SetFields(doc, body, updated) ==
    [k \in DOMAIN doc |->
        IF k = "updated_at" THEN updated
        ELSE IF k \in NotNone(body) THEN body[k]
        ELSE doc[k]]

\* update_one with upsert: a document is inserted when none matches.
UpdateOneUpsert(coll, query, body, updated) ==
    IF FirstMatch(coll, query) = 0
    THEN [matched_count |-> 0,
          docs |-> Append(coll, Expense(CHOOSE id \in query.expense_ids : TRUE,
                                        query.user_id, body, updated))]
    ELSE [matched_count |-> 1,
          docs |-> [coll EXCEPT ![FirstMatch(coll, query)] =
                       SetFields(@, body, updated)]]

\* update_one(query, {"$set": update_dict})
UpdateOne(coll, query, body, updated) ==
    IF FirstMatch(coll, query) = 0
    THEN [matched_count |-> 0, docs |-> coll]
    ELSE [matched_count |-> 1,
          docs |-> [coll EXCEPT ![FirstMatch(coll, query)] =
                       SetFields(@, body, updated)]]

\* The collection without the documents at the places in gone.
RECURSIVE Without(_, _)
Without(coll, gone) ==
    IF coll = <<>> THEN <<>>
    ELSE LET rest == Without(Tail(coll), {k - 1 : k \in gone \ {1}}) IN
         IF 1 \in gone THEN rest ELSE <<Head(coll)>> \o rest

\* delete_one(query)
DeleteOne(coll, query) ==
    IF FirstMatch(coll, query) = 0
    THEN [deleted_count |-> 0, docs |-> coll, ids |-> {}]
    ELSE [deleted_count |-> 1,
          docs |-> Without(coll, {FirstMatch(coll, query)}),
          ids |-> {coll[FirstMatch(coll, query)].expense_id}]

\* delete_many(query)
DeleteMany(coll, query) ==
    [deleted_count |-> Cardinality(Matching(coll, query)),
     docs |-> Without(coll, Matching(coll, query)),
     ids |-> {coll[k].expense_id : k \in Matching(coll, query)}]

ExpenseNotFound == HTTPError(404, "Expense not found")

Respond(op, user, id, out) ==
    response' = [op |-> op, user_id |-> user, expense_id |-> id, out |-> out]

\* Lines 465-482.
create_expense(user, body) ==
    /\ Unused(created) # {}
    /\ \E updated \in Later(now) :
          LET id == uuid4(created) IN
          /\ now' = updated
          /\ expenses' = Append(expenses, Expense(id, user, body, updated))
          /\ created' = created \cup {[expense_id |-> id, user_id |-> user]}
          /\ Respond("create_expense", user, id,
                     Returned([expense_id |-> id,
                               message |-> "Expense created successfully"]))
          /\ UNCHANGED <<deleted, scan, auth>>

\* Lines 529-543.
get_expense(user, expense_id) ==
    LET expense == FindOne(expenses, Query({expense_id}, user)) IN
    /\ Respond("get_expense", user, expense_id,
               IF expense = <<>> THEN ExpenseNotFound
               ELSE Returned(expense[1]))
    /\ UNCHANGED <<expenses, now, created, deleted, scan, auth>>

\* Lines 545-563.
update_expense(user, expense_id, update) ==
    \E updated \in Later(now) :
        LET res == UpdateOne(expenses, Query({expense_id}, user), update,
                             updated) IN
        /\ now' = updated
        /\ expenses' = res.docs
        /\ Respond("update_expense", user, expense_id,
                   IF res.matched_count = 0 THEN ExpenseNotFound
                   ELSE Returned([message |-> "Expense updated successfully"]))
        /\ UNCHANGED <<created, deleted, scan, auth>>

\* Lines 565-578.
delete_expense(user, expense_id) ==
    LET res == DeleteOne(expenses, Query({expense_id}, user)) IN
    /\ expenses' = res.docs
    /\ deleted' = deleted \cup res.ids
    /\ Respond("delete_expense", user, expense_id,
               IF res.deleted_count = 0 THEN ExpenseNotFound
               ELSE Returned([message |-> "Expense deleted successfully"]))
    /\ UNCHANGED <<now, created, scan, auth>>

\* Lines 580-593: expense_ids = body.get("expense_ids", []).
bulk_delete_expenses(user, expense_ids) ==
    LET res == DeleteMany(expenses, Query(expense_ids, user)) IN
    /\ expenses' = res.docs
    /\ deleted' = deleted \cup res.ids
    /\ Respond("bulk_delete_expenses", user, 0,
               Returned([deleted_count |-> res.deleted_count]))
    /\ UNCHANGED <<now, created, scan, auth>>

\* find(query, {"_id": 0}).to_list(...): the documents that match.
Find(coll, query) == Without(coll, (1..Len(coll)) \ Matching(coll, query))

Items(list) == {list[k] : k \in 1..Len(list)}

\* query["tags"] = tag: the tag is one of the document's tags.
HasTag(doc, tag) == tag \in Items(doc.tags.v)

\* The tag filters of get_expenses: none, or a tag.
TagFilters == {Null, Str("team")}

\* Lines 484-527, with the tag filter for the filters: each filter is one more
\* condition of the query next to user_id.  The list is given by its
\* documents, without the order sort("date", -1) puts them in.
get_expenses(user, tag) ==
    LET owned == Find(expenses, Query(ExpenseIds, user))
        kept(doc) == tag = Null \/ HasTag(doc, tag) IN
    /\ Respond("get_expenses", user, 0,
               Returned([expenses |-> {doc \in Items(owned) : kept(doc)}]))
    /\ UNCHANGED <<expenses, now, created, deleted, scan, auth>>

\* Lines 617-666 for the list found: the count, and the vendors the totals
\* are kept for; every sum is taken over the same list.
Summary(found) ==
    [expense_count |-> Len(found),
     vendors |-> {found[k].vendor : k \in 1..Len(found)}]

\* Lines 597-666.
get_analytics_summary(user) ==
    /\ Respond("get_analytics_summary", user, 0,
               Returned(Summary(Find(expenses, Query(ExpenseIds, user)))))
    /\ UNCHANGED <<expenses, now, created, deleted, scan, auth>>

\* Lines 704-809: the rows of the PDF or of the sheet, one per expense found.
Report(found) ==
    [receipts |-> Len(found),
     rows |-> {[expense_id |-> found[k].expense_id, vendor |-> found[k].vendor] :
                  k \in 1..Len(found)}]

\* Lines 670-690.
generate_report(user) ==
    /\ Respond("generate_report", user, 0,
               Returned(Report(Find(expenses, Query(ExpenseIds, user)))))
    /\ UNCHANGED <<expenses, now, created, deleted, scan, auth>>

\* Lines 819-833: {"tags": {"$exists": True, "$ne": []}}, then the union of
\* the tags; sorted(list(all_tags)) is given by its set.
get_tags(user) ==
    LET owned == Find(expenses, Query(ExpenseIds, user))
        tagged(doc) == doc.tags.v # <<>> IN
    /\ Respond("get_tags", user, 0,
               Returned([tags |-> UNION {Items(doc.tags.v) :
                                            doc \in {d \in Items(owned) : tagged(d)}}]))
    /\ UNCHANGED <<expenses, now, created, deleted, scan, auth>>

ExpenseRequest ==
    \E user \in Users :
        \/ \E tag \in TagFilters : get_expenses(user, tag)
        \/ get_analytics_summary(user)
        \/ generate_report(user)
        \/ get_tags(user)
        \/ \E body \in CreateBodies : create_expense(user, body)
        \/ \E id \in ExpenseIds : get_expense(user, id)
        \/ \E id \in ExpenseIds, update \in UpdateBodies :
               update_expense(user, id, update)
        \/ \E id \in ExpenseIds : delete_expense(user, id)
        \/ \E ids \in SUBSET ExpenseIds : bulk_delete_expenses(user, ids)

SpecExpenses == Init /\ [][ExpenseRequest]_vars

Stored(id) == \E k \in 1..Len(expenses) : expenses[k].expense_id = id

\* What the step just taken answered to the user an expense_id was returned
\* to: the response of get_expense, update_expense or delete_expense on it.
Answered(c) ==
    /\ store' # store
    /\ response'.op \in {"get_expense", "update_expense", "delete_expense"}
    /\ response'.user_id = c.user_id
    /\ response'.expense_id = c.expense_id

\* C20: once create_expense has returned an expense_id, the same user's
\* get_expense, update_expense and delete_expense on it succeed while no
\* delete has removed it, a successful delete_expense removes it, and after
\* a delete_expense or a bulk delete has removed it all three fail with 404
\* 'Expense not found' and leave the stored expenses as they were.
ExpenseLifecycle ==
    /\ [](\A c \in created : Stored(c.expense_id) <=> c.expense_id \notin deleted)
    /\ [][\A c \in created :
            (Answered(c) /\ c.expense_id \notin deleted) =>
                /\ response'.out.kind = "result"
                /\ response'.out.status = 200
                /\ (c.expense_id \in deleted') <=> (response'.op = "delete_expense")]_vars
    /\ [][\A c \in created :
            (Answered(c) /\ c.expense_id \in deleted) =>
                /\ response'.out = ExpenseNotFound
                /\ expenses' = expenses]_vars

UpdateAfterDeleteNotFound ==
    /\ response.op = "update_expense"
    /\ response.out = ExpenseNotFound
    /\ response.expense_id \in deleted
    /\ [expense_id |-> response.expense_id, user_id |-> response.user_id]
           \in created
    /\ Len(expenses) = 1

\* The expenses of a user, and those of the others, as they lie in db.expenses.
OwnedBy(coll, user) ==
    Without(coll, {k \in 1..Len(coll) : coll[k].user_id # user})

NotOwnedBy(coll, user) ==
    Without(coll, {k \in 1..Len(coll) : coll[k].user_id = user})

\* What the response just given shows of the stored expenses is the user's.
ShowsOnlyOwn(user) ==
    LET out == response'.out
        own == OwnedBy(expenses, user) IN
    /\ response'.op = "get_expense" /\ out.kind = "result" =>
           out.value.user_id = user
    /\ response'.op = "get_expenses" =>
           \A doc \in out.value.expenses : doc.user_id = user
    /\ response'.op = "get_analytics_summary" => out = Returned(Summary(own))
    /\ response'.op = "generate_report" => out = Returned(Report(own))
    /\ response'.op = "get_tags" =>
           out.value.tags \subseteq UNION {Items(doc.tags.v) : doc \in Items(own)}
    /\ response'.op = "bulk_delete_expenses" =>
           out.value.deleted_count = Len(own) - Len(OwnedBy(expenses', user))

\* The request just answered named an expense_id stored for another user.
NamedForeign(user) ==
    /\ response'.op \in {"get_expense", "update_expense", "delete_expense"}
    /\ \E k \in 1..Len(expenses) :
          /\ expenses[k].expense_id = response'.expense_id
          /\ expenses[k].user_id # user

\* C21: whatever the users have done before, an operation of user A returns
\* only expenses whose user_id is A and leaves the expenses of the others
\* as they are; an expense_id stored for another user is answered as one
\* that is not stored, with 404 and no change, and a bulk delete counts
\* only the expenses of A it removed.
TenantIsolation ==
    [][\A user \in Users :
          (store' # store /\ response'.user_id = user) =>
              /\ NotOwnedBy(expenses', user) = NotOwnedBy(expenses, user)
              /\ ShowsOnlyOwn(user)
              /\ NamedForeign(user) =>
                     response'.out = ExpenseNotFound /\ expenses' = expenses]_vars

ForeignIdNotFound ==
    /\ response.op = "delete_expense"
    /\ response.user_id = "user_a"
    /\ response.out = ExpenseNotFound
    /\ \E k \in 1..Len(expenses) :
          /\ expenses[k].expense_id = response.expense_id
          /\ expenses[k].user_id = "user_b"
    /\ \E k \in 1..Len(expenses) : expenses[k].user_id = "user_a"

(***************************************************************************)
(* Sessions: create_session, get_current_user behind /auth/me, and logout. *)
(* The calls a handler makes on db.user_sessions and db.users are taken    *)
(* together as one action.  Time is counted in days.                       *)
(***************************************************************************)
\* timedelta(days=7)
days == 7

\* The days requests are made on: the day a first session is created, the
\* day it expires, and the day after.
Dates == {0, days, days + 1}

LaterDates(time) == {t \in Dates : t >= time}

\* user_data["email"] of the auth provider's reply.
Emails == {"a@example.com", "b@example.com"}

\* f"user_{uuid.uuid4().hex[:12]}": a user_id no other user has.
NewUserId(email) == IF email = "a@example.com" THEN "user_a" ELSE "user_b"

\* The session_tokens the auth provider gives, and those uuid4 gives when
\* the provider's reply holds none.
ProviderTokens == {"tok_1"}

UuidTokens == {"sess_1"}

\* The replies of the auth provider: a refusal, or user data with or without
\* ("") a session_token.
AuthReplies ==
    {[status_code |-> 401, email |-> "", session_token |-> ""]}
    \cup {[status_code |-> 200, email |-> e, session_token |-> t] :
             e \in Emails, t \in ProviderTokens \cup {""}}

\* body.get("session_id")
SessionIds == {"", "sid_1"}

\* The requests: a cookie that is a token given out, one that never was, or
\* none, and an Authorization header.
Requests ==
    {Request(c, a) :
        c \in {"", "tok_1", "sess_1", "tok_9"},
        a \in {"", "Bearer tok_1", "Bearer sess_1", "Basic tok_1"}}

MaxSessions == 2

\* s.startswith(prefix)
startswith(s, prefix) ==
    Len(s) >= Len(prefix) /\ SubSeq(s, 1, Len(prefix)) = prefix

\* Lines 139-144: the cookie, else the Bearer token of the header.
SessionToken(req) ==
    IF req.cookie # "" THEN req.cookie
    ELSE IF req.authorization # "" /\ startswith(req.authorization, "Bearer ")
    THEN Split(req.authorization, " ")[2]
    ELSE ""

\* The first document of a collection whose field has the value, 0 for none.
FirstWith(coll, field_name, value) ==
    IF \A k \in 1..Len(coll) : coll[k][field_name] # value THEN 0
    ELSE Min({k \in 1..Len(coll) : coll[k][field_name] = value})

\* Lines 137-176, at the time the expiry is checked.
get_current_user(req, time) ==
    LET session_token == SessionToken(req)
        s == FirstWith(user_sessions, "session_token", session_token) IN
    IF session_token = "" THEN HTTPError(401, "Not authenticated")
    ELSE IF s = 0 THEN HTTPError(401, "Invalid session")
    ELSE IF user_sessions[s].expires_at < time
    THEN HTTPError(401, "Session expired")
    ELSE IF FirstWith(users, "user_id", user_sessions[s].user_id) = 0
    THEN HTTPError(401, "User not found")
    ELSE Returned(users[FirstWith(users, "user_id", user_sessions[s].user_id)])

\* Lines 257-260: GET /auth/me.
get_me(req) ==
    \E time \in LaterDates(now) :
        LET out == get_current_user(req, time) IN
        /\ now' = time
        /\ request' = req
        /\ Respond("get_me",
                   IF out.kind = "result" THEN out.value.user_id ELSE NoUser,
                   0, out)
        /\ UNCHANGED <<user_sessions, users, logged_out, expenses, created,
                       deleted, scan>>

\* delete_one({"session_token": session_token}) on db.user_sessions.
DeleteSession(coll, session_token) ==
    IF FirstWith(coll, "session_token", session_token) = 0
    THEN [deleted_count |-> 0, docs |-> coll]
    ELSE [deleted_count |-> 1,
          docs |-> Without(coll, {FirstWith(coll, "session_token", session_token)})]

\* Lines 262-271.
logout(req) ==
    LET session_token == req.cookie
        res == IF session_token # ""
               THEN DeleteSession(user_sessions, session_token)
               ELSE [deleted_count |-> 0, docs |-> user_sessions] IN
    /\ user_sessions' = res.docs
    /\ logged_out' = IF res.deleted_count = 1
                     THEN logged_out \cup {session_token} ELSE logged_out
    /\ request' = req
    /\ Respond("logout", NoUser, 0,
               Returned([message |-> "Logged out successfully"]))
    /\ UNCHANGED <<users, now, expenses, created, deleted, scan>>

\* The uuid4 session_tokens no session has had.
UnusedTokens ==
    UuidTokens \ (logged_out
                  \cup {user_sessions[k].session_token : k \in 1..Len(user_sessions)})

\* Lines 180-255, for the reply the auth provider gives to the session_id.
create_session(session_id, auth_response) ==
    /\ request' = NoRequest
    /\ UNCHANGED <<expenses, created, deleted, scan>>
    /\ IF session_id = ""
       THEN /\ Respond("create_session", NoUser, 0,
                       HTTPError(400, "session_id required"))
            /\ UNCHANGED <<user_sessions, users, now, logged_out>>
       ELSE IF auth_response.status_code # 200
       THEN /\ Respond("create_session", NoUser, 0,
                       HTTPError(401, "Invalid session_id"))
            /\ UNCHANGED <<user_sessions, users, now, logged_out>>
       ELSE /\ Len(user_sessions) < MaxSessions
            /\ auth_response.session_token = "" => UnusedTokens # {}
            /\ \E time \in LaterDates(now) :
                 LET existing_user == FirstWith(users, "email", auth_response.email)
                     user_doc ==
                         IF existing_user # 0 THEN users[existing_user]
                         ELSE [user_id |-> NewUserId(auth_response.email),
                               email |-> auth_response.email]
                     session_token ==
                         IF auth_response.session_token # ""
                         THEN auth_response.session_token
                         ELSE CHOOSE token \in UnusedTokens : TRUE IN
                 /\ now' = time
                 /\ users' = IF existing_user # 0 THEN users
                             ELSE Append(users, user_doc)
                 /\ user_sessions' =
                        Append(user_sessions,
                               [session_token |-> session_token,
                                user_id |-> user_doc.user_id,
                                expires_at |-> time + days])
                 /\ logged_out' = logged_out \ {session_token}
                 /\ Respond("create_session", user_doc.user_id, 0,
                            Returned([user |-> user_doc,
                                      session_token |-> session_token]))

SessionRequest ==
    \/ \E session_id \in SessionIds, auth_response \in AuthReplies :
           create_session(session_id, auth_response)
    \/ \E req \in Requests : get_me(req)
    \/ \E req \in Requests : logout(req)

SpecSessions == Init /\ [][SessionRequest]_vars

\* The token a request carries: its cookie, and without one what follows
\* "Bearer " in its Authorization header.
Carried(req) ==
    IF req.cookie # "" THEN req.cookie
    ELSE IF \E token \in ProviderTokens \cup UuidTokens :
                req.authorization = "Bearer " \o token
    THEN CHOOSE token \in ProviderTokens \cup UuidTokens :
             req.authorization = "Bearer " \o token
    ELSE ""

SessionsOf(coll, token) ==
    {k \in 1..Len(coll) : coll[k].session_token = token}

\* The sessions that do not have the token, as they lie in the collection.
SessionsBut(coll, token) == Without(coll, SessionsOf(coll, token))

\* The step just taken answered a request to an endpoint.
Served(op) == store' # store /\ response'.op = op

\* C22: /auth/me authenticates a request only if the token it carries, the
\* cookie before the Bearer header, is that of a stored session that has
\* not expired and whose user exists; a request carrying the token of a
\* session that has expired or that logout removed gets 401; logout removes
\* one session with the token of the cookie and no other, and none when no
\* cookie is sent.
SessionAuthentication ==
    /\ [][Served("get_me") /\ response'.out.kind = "result" =>
             \E k \in SessionsOf(user_sessions, Carried(request')) :
                 /\ user_sessions[k].expires_at >= now'
                 /\ \E u \in 1..Len(users) :
                        /\ users[u].user_id = user_sessions[k].user_id
                        /\ response'.out.value = users[u]]_vars
    /\ [][(/\ Served("get_me")
           /\ \/ Carried(request') \in logged_out
              \/ \E k \in SessionsOf(user_sessions, Carried(request')) :
                     user_sessions[k].expires_at < now') =>
             response'.out.kind = "error" /\ response'.out.status = 401]_vars
    /\ [][Served("logout") =>
             /\ SessionsBut(user_sessions', request'.cookie)
                    = SessionsBut(user_sessions, request'.cookie)
             /\ Len(user_sessions') >= Len(user_sessions) - 1
             /\ request'.cookie = "" => user_sessions' = user_sessions]_vars

\* /auth/me answers 200 to a request whose token is that of a session that
\* logout removed.
LoggedOutTokenAccepted ==
    /\ response.op = "get_me"
    /\ response.out.kind = "result"
    /\ Carried(request) \in logged_out

====
